---- MODULE Spec2Model ----
(***************************************************************************)
(* Seat / ticket reservation and payment settlement of nammashow_api.      *)
(*                                                                         *)
(* Every request handler is an async function; each `await db.query(...)`  *)
(* is a point where another request may run.  A request is therefore a     *)
(* process with a program counter, and one action of the model is one      *)
(* database statement (or one run of statements that read only catalog     *)
(* tables, which no handler writes).  The database tables are the shared   *)
(* state.                                                                  *)
(***************************************************************************)
EXTENDS Integers, Sequences, FiniteSets, TLC

(* ------------------------------ bounds -------------------------------- *)
MaxReqs == 2
MaxTime == 30
TickStep == 15
MaxBookings == 2
MaxEventBookings == 2
MaxBalance == 2
MaxVerifies == 3
MaxFlowVerifies == 2
BigBalance == 300
MaxPriceOrders == 1

(* ------------------------- program constants -------------------------- *)
\* INTERVAL 15 MINUTE of seat_locks.expires_at and of the stale-booking sweep
TTL == 15
\* const platformFee = 18
platformFee == 18

\* money and loyalty points are counted in paise, the hundredth of a rupee or of
\* a point: Math.round(amount * 100), Convert rupees to paise
Rupees(x) == x * 100

Users == {1, 2}
Schedules == {10}

\* the schedule ids a client may send to lockSeats and unlockSeats, which do not
\* look the schedule up
ScheduleIds == Schedules \cup {11}
\* layout seats of the screen; B1 is a counter seat, outside seat_allocation.online_seats
Seats == {"A1", "A2", "B1"}
onlineSeats == {"A1", "A2"}
Reqs == 1 .. MaxReqs

\* the users who have logged in but not completed their profile
NewUsers == {3}

\* admin_settings.referral_amount
referral_amount == 1

VARIABLES
  now,                  \* the database clock NOW(), in minutes
  seat_locks,           \* table seat_locks, keyed (schedule_id, seat_number)
  theater_bookings,     \* table theater_bookings, row id = index
  event_bookings,       \* table event_bookings, row id = index
  payment_transactions, \* table payment_transactions, row id = index
  loyality_points,      \* users_profiles.loyality_points per user id
  gateway_orders,       \* number of orders the payment gateway has created
  verifies,             \* number of verifyPayment requests received so far
  isverified,           \* users_profiles.isverified per user id still to register
  req                   \* the requests in flight, one per slot

vars == <<now, seat_locks, theater_bookings, event_bookings,
          payment_transactions, loyality_points, gateway_orders, verifies,
          isverified, req>>

tables == <<seat_locks, theater_bookings, event_bookings,
            payment_transactions, loyality_points, gateway_orders, isverified>>

(* ------------------------------ helpers ------------------------------- *)
Range(s) == {s[i] : i \in DOMAIN s}

Min(a, b) == IF a <= b THEN a ELSE b

\* a key of seat_locks with no row
NoLock == [user_id |-> 0, expires_at |-> 0]

HasLock(locks, s, x) == locks[<<s, x>>] # NoLock

\* DELETE FROM seat_locks WHERE expires_at < NOW()
SweepLocks(locks, t) ==
  [k \in DOMAIN locks |->
     IF locks[k] # NoLock /\ locks[k].expires_at < t THEN NoLock ELSE locks[k]]

\* an INSERT IGNORE: on a duplicate key the row that exists is kept as it is
UpsertLock_ignore(locks, s, x, u, t) ==
  IF HasLock(locks, s, x) THEN locks
  ELSE [locks EXCEPT ![<<s, x>>] = [user_id |-> u, expires_at |-> t + TTL]]


\* INSERT INTO seat_locks ... ON DUPLICATE KEY UPDATE user_id, locked_at, expires_at
UpsertLock(locks, s, x, u, t) ==
  [locks EXCEPT ![<<s, x>>] = [user_id |-> u, expires_at |-> t + TTL]]

\* SELECT ... FROM seat_locks WHERE schedule_id = ? AND seat_number IN (?) AND expires_at > NOW()
\* a read of the holds that does not look at expires_at
LiveLocks_all(locks, s, xs, t) == {x \in xs : HasLock(locks, s, x)}

LiveLocks(locks, s, xs, t) ==
  {x \in xs : HasLock(locks, s, x) /\ locks[<<s, x>>].expires_at > t}

\* seats of the bookings of a schedule whose status is one of `sts`
SeatsOfBookings(bookings, s, sts) ==
  UNION {Range(bookings[b].seats_booked) :
           b \in {c \in DOMAIN bookings :
                    bookings[c].schedule_id = s /\ bookings[c].status \in sts}}

\* a read of the booked seats that finds none
bookedSeats_none(bookings, s) == {}

\* SELECT seats_booked FROM theater_bookings WHERE schedule_id = ? AND status IN (1, 3)
bookedSeats(bookings, s) == SeatsOfBookings(bookings, s, {1, 3})

(* ------------------------------ requests ------------------------------ *)
\* a signature the client sends: a gateway HMAC or a string with a prefix
NoSig == [prefix |-> "", key |-> "", order |-> 0, pay |-> 0]

\* no price breakdown
NoPricing ==
  [ticket_price |-> 0, food_price |-> 0, platform_fee |-> 0, subtotal |-> 0,
   coupon_discount |-> 0, loyalty_points_used |-> 0, gst |-> 0, total |-> 0]

Idle ==
  [op |-> "none", pc |-> "idle", user |-> 0, sched |-> 0, seats |-> <<>>,
   tickets |-> <<>>, i |-> 0, use_loyalty |-> FALSE, used |-> 0, qty |-> 0,
   number |-> 0, gw |-> 0, booking_id |-> 0, order |-> 0, pay |-> 0,
   sig |-> NoSig, payment |-> 0, res |-> "none", conc |-> {}, free0 |-> FALSE, locks0 |-> <<>>,
   points |-> 0, named |-> {}, booked |-> {}, layout |-> <<>>,
   food_items |-> <<>>, coupon_code |-> "", pricing |-> NoPricing,
   connection |-> 0]

Free(r) == req[r].pc \in {"idle", "done"}

InFlight == {q \in Reqs : ~Free(q)}

\* a request starts in slot r; the slots that ran alongside it are remembered
Begin(r, rec) ==
  req' = [q \in Reqs |->
            IF q = r THEN [rec EXCEPT !.conc = InFlight \ {r}]
            ELSE [req[q] EXCEPT !.conc = @ \ {r}]]

Goto(r, p) == req' = [req EXCEPT ![r].pc = p]

\* the handler returns with a price breakdown: its locals are gone, its inputs
\* and response remain
Answer(r, result, breakdown) ==
  req' = [req EXCEPT ![r].pc = "done", ![r].res = result, ![r].i = 0,
                     ![r].used = 0, ![r].qty = 0, ![r].number = 0, ![r].gw = 0,
                     ![r].booking_id = 0, ![r].payment = 0, ![r].locks0 = <<>>,
                     ![r].points = 0, ![r].booked = {}, ![r].pricing = breakdown,
                     ![r].connection = 0]

\* the handler returns without one
Finish(r, result) == Answer(r, result, NoPricing)

(* ------------------------------ lockSeats ----------------------------- *)
\* free0 remembers whether the seats were free when the request arrived, locks0
\* the hold rows of that moment
lockSeats_start(r, u, s, ss) ==
  /\ Free(r)
  /\ Begin(r, [Idle EXCEPT !.op = "lockSeats", !.pc = "ls_sweep", !.user = u,
                           !.sched = s, !.seats = ss,
                           !.free0 = /\ LiveLocks(seat_locks, s, Range(ss), now) = {}
                                     /\ Range(ss) \cap bookedSeats(theater_bookings, s) = {},
                           !.locks0 = seat_locks])
  /\ UNCHANGED <<now, tables, verifies>>

\* Clean up expired locks first
lockSeats_sweep(r) ==
  /\ req[r].pc = "ls_sweep"
  /\ seat_locks' = SweepLocks(seat_locks, now)
  /\ Goto(r, "ls_locks")
  /\ UNCHANGED <<now, theater_bookings, event_bookings, payment_transactions,
                 loyality_points, gateway_orders, verifies, isverified>>

\* seats of the request that another user holds live
lockSeats_unavailable(locks, s, ss, u, t) ==
  {x \in LiveLocks(locks, s, Range(ss), t) : locks[<<s, x>>].user_id # u}

\* the handler returns a conflict whose message names the seats xs
Conflict(r, result, xs) ==
  req' = [req EXCEPT ![r].pc = "done", ![r].res = result, ![r].named = xs,
                     ![r].i = 0, ![r].locks0 = <<>>]

\* a lockSeats that goes on to the bookings whatever the holds are
lockSeats_locks_skip(r) ==
  /\ req[r].pc = "ls_locks"
  /\ Goto(r, "ls_booked")
  /\ UNCHANGED <<now, tables, verifies>>

\* Check if any seats are already locked by other users
lockSeats_locks(r) ==
  /\ req[r].pc = "ls_locks"
  /\ LET unavailableSeats == lockSeats_unavailable(seat_locks, req[r].sched, req[r].seats,
                                                   req[r].user, now) IN
       IF unavailableSeats # {}
       THEN Conflict(r, "locked_by_other", unavailableSeats)
       ELSE Goto(r, "ls_booked")
  /\ UNCHANGED <<now, tables, verifies>>

\* Check if seats are already booked
lockSeats_booked(r) ==
  /\ req[r].pc = "ls_booked"
  /\ LET alreadyBooked == Range(req[r].seats)
                            \cap bookedSeats(theater_bookings, req[r].sched) IN
       IF alreadyBooked # {}
       THEN Conflict(r, "already_booked", alreadyBooked)
       ELSE req' = [req EXCEPT ![r].pc = "ls_insert", ![r].i = 1]
  /\ UNCHANGED <<now, tables, verifies>>

\* Lock the seats for 15 minutes, one INSERT per seat
lockSeats_insert(r) ==
  /\ req[r].pc = "ls_insert"
  /\ seat_locks' = UpsertLock(seat_locks, req[r].sched, req[r].seats[req[r].i],
                              req[r].user, now)
  /\ IF req[r].i = Len(req[r].seats)
     THEN Finish(r, "ok")
     ELSE req' = [req EXCEPT ![r].i = @ + 1]
  /\ UNCHANGED <<now, theater_bookings, event_bookings, payment_transactions,
                 loyality_points, gateway_orders, verifies, isverified>>

lockSeats(r) ==
  \/ lockSeats_sweep(r)
  \/ lockSeats_locks(r)
  \/ lockSeats_booked(r)
  \/ lockSeats_insert(r)

(* ----------------------------- unlockSeats ---------------------------- *)
\* ss = <<>> stands for a request without a seats array
unlockSeats_start(r, u, s, ss) ==
  /\ Free(r)
  /\ Begin(r, [Idle EXCEPT !.op = "unlockSeats", !.pc = "ul_delete", !.user = u,
                           !.sched = s, !.seats = ss])
  /\ UNCHANGED <<now, tables, verifies>>

\* a DELETE without the user_id condition
DeleteLocksOf_anyone(locks, s, u, xs) ==
  [k \in DOMAIN locks |-> IF k[1] = s /\ k[2] \in xs THEN NoLock ELSE locks[k]]

\* DELETE FROM seat_locks WHERE schedule_id = ? AND user_id = ? [AND seat_number IN (?)]
DeleteLocksOf(locks, s, u, xs) ==
  [k \in DOMAIN locks |->
     IF k[1] = s /\ locks[k].user_id = u /\ k[2] \in xs THEN NoLock ELSE locks[k]]

unlockSeats(r) ==
  /\ req[r].pc = "ul_delete"
  /\ seat_locks' = DeleteLocksOf(seat_locks, req[r].sched, req[r].user,
                                 IF Len(req[r].seats) > 0 THEN Range(req[r].seats) ELSE Seats)
  /\ Finish(r, "ok")
  /\ UNCHANGED <<now, theater_bookings, event_bookings, payment_transactions,
                 loyality_points, gateway_orders, verifies, isverified>>

(* ------------------- cleanupPendingBookings / getSeatLayout ----------- *)
getSeatLayout_start(r, u, s) ==
  /\ Free(r)
  /\ Begin(r, [Idle EXCEPT !.op = "getSeatLayout", !.pc = "cl_bookings", !.user = u,
                           !.sched = s])
  /\ UNCHANGED <<now, tables, verifies>>

\* an UPDATE that cancels every pending booking, whatever its age
CancelStale_all(bookings, t) ==
  [b \in DOMAIN bookings |->
     IF bookings[b].status = 0 THEN [bookings[b] EXCEPT !.status = 2] ELSE bookings[b]]

\* UPDATE theater_bookings SET status = 2 WHERE status = 0
\*   AND created_at < DATE_SUB(NOW(), INTERVAL 15 MINUTE)
CancelStale(bookings, t) ==
  [b \in DOMAIN bookings |->
     IF bookings[b].status = 0 /\ bookings[b].created_at < t - TTL
     THEN [bookings[b] EXCEPT !.status = 2]
     ELSE bookings[b]]

cleanupPendingBookings_bookings(r) ==
  /\ req[r].pc = "cl_bookings"
  /\ theater_bookings' = CancelStale(theater_bookings, now)
  /\ Goto(r, "cl_locks")
  /\ UNCHANGED <<now, seat_locks, event_bookings, payment_transactions,
                 loyality_points, gateway_orders, verifies, isverified>>

cleanupPendingBookings_locks(r) ==
  /\ req[r].pc = "cl_locks"
  /\ seat_locks' = SweepLocks(seat_locks, now)
  /\ Goto(r, "sl_booked")
  /\ UNCHANGED <<now, theater_bookings, event_bookings, payment_transactions,
                 loyality_points, gateway_orders, verifies, isverified>>

\* Get booked seats for this specific schedule
getSeatLayout_booked(r) ==
  /\ req[r].pc = "sl_booked"
  /\ IF req[r].sched \notin Schedules
     THEN Finish(r, "schedule_not_found")
     ELSE req' = [req EXCEPT ![r].pc = "sl_locks",
                             ![r].booked = bookedSeats(theater_bookings, req[r].sched)]
  /\ UNCHANGED <<now, tables, verifies>>

\* Get locked seats, excluding the current user's locks:
\* SELECT seat_number FROM seat_locks WHERE schedule_id = ? AND expires_at > NOW()
\*   AND user_id != ?
lockedSeats(locks, s, u, t) ==
  {x \in LiveLocks(locks, s, Seats, t) : locks[<<s, x>>].user_id # u}

\* Determine seat status: booked > locked > available, for the online seats
seatStatus(x, booked, locked) ==
  IF x \in booked THEN "booked" ELSE IF x \in locked THEN "locked" ELSE "available"

getSeatLayout_locks(r) ==
  /\ req[r].pc = "sl_locks"
  /\ LET locked == lockedSeats(seat_locks, req[r].sched, req[r].user, now) IN
       req' = [req EXCEPT ![r].pc = "done", ![r].res = "ok", ![r].booked = {},
                          ![r].layout = [x \in onlineSeats |->
                                           seatStatus(x, req[r].booked, locked)]]
  /\ UNCHANGED <<now, tables, verifies>>

getSeatLayout(r) ==
  \/ cleanupPendingBookings_bookings(r)
  \/ cleanupPendingBookings_locks(r)
  \/ getSeatLayout_booked(r)
  \/ getSeatLayout_locks(r)

(* ------------------------- pricing (theater) -------------------------- *)
\* show_managements.pricing_data: one category, Regular
pricing_data == [regular |-> [base_price |-> 200, weekend_price |-> 250]]

\* the show date of the schedule is a weekday
isWeekend == FALSE

\* price of one seat of the layout: weekend price on a weekend, else base price
seatPrice(x) ==
  IF isWeekend /\ pricing_data.regular.weekend_price # 0
  THEN Rupees(pricing_data.regular.weekend_price)
  ELSE Rupees(pricing_data.regular.base_price)

\* ticketPrice += price, over the requested seats
RECURSIVE ticketPriceOf(_)
ticketPriceOf(ss) ==
  IF ss = <<>> THEN 0 ELSE seatPrice(Head(ss)) + ticketPriceOf(Tail(ss))

\* food_and_beverage_managements: the items on sale, by id, with the theater
food_and_beverage_managements ==
  [id \in {7, 8} |-> IF id = 7 THEN [theater_id |-> 1, price |-> 120]
                              ELSE [theater_id |-> 2, price |-> 90]]

\* t.id of the schedule's theater
theater_id == 1

\* foodPrice += parseFloat(foodItem.price) * parseInt(item.quantity), over the
\* requested items that are on sale in the theater of the schedule
RECURSIVE foodPriceOf(_)
foodPriceOf(items) ==
  IF items = <<>> THEN 0
  ELSE (IF /\ Head(items).id \in DOMAIN food_and_beverage_managements
           /\ food_and_beverage_managements[Head(items).id].theater_id = theater_id
        THEN Rupees(food_and_beverage_managements[Head(items).id].price)
               * Head(items).quantity
        ELSE 0) + foodPriceOf(Tail(items))

\* const subtotal = ticketPrice + foodPrice + platformFee
subtotalOf(ss, items) == ticketPriceOf(ss) + foodPriceOf(items) + Rupees(platformFee)

\* coupon_managements: the coupons that are active today, by code.  discount_type
\* '0' is a percentage; 0 stands for a NULL max_discount_amount or
\* min_discount_amount
coupon_managements ==
  [code \in {"HALF", "P15", "FLAT50", "FLAT500"} |->
     CASE code = "HALF" ->
            [discount_type |-> "0", discount_value |-> 50,
             max_discount_amount |-> 100, min_discount_amount |-> 0]
       [] code = "P15" ->
            [discount_type |-> "0", discount_value |-> 15,
             max_discount_amount |-> 0, min_discount_amount |-> 400]
       [] code = "FLAT50" ->
            [discount_type |-> "1", discount_value |-> 50,
             max_discount_amount |-> 0, min_discount_amount |-> 0]
       [] code = "FLAT500" ->
            [discount_type |-> "1", discount_value |-> 500,
             max_discount_amount |-> 0, min_discount_amount |-> 0]]

\* Apply coupon: none without a code or for a code that is not found; below the
\* minimum order value the coupon is ignored; a percentage of the subtotal, capped
\* at max_discount_amount when there is one, or a flat amount
couponDiscountOf(coupon_code, subtotal) ==
  IF coupon_code \notin DOMAIN coupon_managements THEN 0
  ELSE LET coupon == coupon_managements[coupon_code] IN
         IF subtotal < Rupees(coupon.min_discount_amount) THEN 0
         ELSE IF coupon.discount_type = "0"
         THEN LET percentage == (subtotal * coupon.discount_value) \div 100 IN
                IF coupon.max_discount_amount # 0
                THEN Min(percentage, Rupees(coupon.max_discount_amount))
                ELSE percentage
         ELSE Rupees(coupon.discount_value)

\* loyaltyPointsUsed = Math.min(availablePoints, subtotal - couponDiscount), where
\* the event createOrder has no coupon
loyaltyPointsUsed(use, available, afterCoupon) ==
  IF use /\ available > 0 THEN Min(available, afterCoupon) ELSE 0

\* a tax of 12%
gstOf_twelve(amountAfterDiscount) == amountAfterDiscount * 12

\* const gst = amountAfterDiscount * 0.18, in hundredths of a paisa
gstOf(amountAfterDiscount) == amountAfterDiscount * 18

\* const totalAmount = amountAfterDiscount + gst, in hundredths of a paisa
totalAmount(amountAfterDiscount) == amountAfterDiscount * 100 + gstOf(amountAfterDiscount)

\* parseFloat(x.toFixed(2)), and the rounding of a decimal(10,2) column: from
\* hundredths of a paisa to the nearest paisa, halves away from zero
toFixed2(x) == IF x >= 0 THEN (x + 50) \div 100 ELSE 0 - ((50 - x) \div 100)

\* the breakdown both handlers answer with, and createOrder stores in
\* payment_details: amounts in paise, gst and total rounded
Pricing(ss, items, coupon_code, used) ==
  LET subtotal == subtotalOf(ss, items)
      couponDiscount == couponDiscountOf(coupon_code, subtotal)
      amountAfterDiscount == subtotal - couponDiscount - used
  IN [ticket_price |-> ticketPriceOf(ss), food_price |-> foodPriceOf(items),
      platform_fee |-> Rupees(platformFee), subtotal |-> subtotal,
      coupon_discount |-> couponDiscount, loyalty_points_used |-> used,
      gst |-> toFixed2(gstOf(amountAfterDiscount)),
      total |-> toFixed2(totalAmount(amountAfterDiscount))]

\* amountAfterDiscount of an order whose loyalty points are known
amountOf(rq) ==
  subtotalOf(rq.seats, rq.food_items)
    - couponDiscountOf(rq.coupon_code, subtotalOf(rq.seats, rq.food_items)) - rq.used

(* ------------------------ createOrder (theater) ----------------------- *)
\* the seats of ss that another user holds live or that a pending or confirmed
\* booking references
TakenSeats(u, s, ss) ==
  {x \in LiveLocks(seat_locks, s, Range(ss), now) : seat_locks[<<s, x>>].user_id # u}
    \cup (Range(ss) \cap SeatsOfBookings(theater_bookings, s, {0, 1}))

\* free0 remembers whether none of the seats was taken when the request arrived,
\* locks0 the hold rows of that moment
createOrder_request(r, u, s, ss, items, code, use) ==
  /\ Free(r)
  /\ Len(theater_bookings)
       + Cardinality({q \in InFlight : req[q].op = "createOrder"}) < MaxBookings
  /\ Begin(r, [Idle EXCEPT !.op = "createOrder", !.pc = "co_lock", !.user = u,
                           !.sched = s, !.seats = ss, !.i = 1, !.use_loyalty = use,
                           !.food_items = items, !.coupon_code = code,
                           !.free0 = TakenSeats(u, s, ss) = {},
                           !.locks0 = seat_locks])
  /\ UNCHANGED <<now, tables, verifies>>

\* a request without food_items and without coupon_code
createOrder_start(r, u, s, ss, use) == createOrder_request(r, u, s, ss, <<>>, "", use)

\* Auto-lock seats when creating order: the same upsert as lockSeats, with no check
createOrder_lock(r) ==
  /\ req[r].pc = "co_lock"
  /\ seat_locks' = UpsertLock(seat_locks, req[r].sched, req[r].seats[req[r].i],
                              req[r].user, now)
  /\ IF req[r].i = Len(req[r].seats)
     THEN req' = [req EXCEPT ![r].pc = "co_check", ![r].i = 0]
     ELSE req' = [req EXCEPT ![r].i = @ + 1]
  /\ UNCHANGED <<now, theater_bookings, event_bookings, payment_transactions,
                 loyality_points, gateway_orders, verifies, isverified>>

\* seats not in the online quota, or in a booking with status 1 or 3
createOrder_unavailable(bookings, s, ss) ==
  {x \in Range(ss) : x \notin onlineSeats \/ x \in bookedSeats(bookings, s)}

\* Get schedule details; Get already booked seats; Check if requested seats are available
createOrder_check(r) ==
  /\ req[r].pc = "co_check"
  /\ IF req[r].sched \notin Schedules
     THEN Finish(r, "schedule_not_found")
     ELSE IF createOrder_unavailable(theater_bookings, req[r].sched, req[r].seats) # {}
     THEN Finish(r, "not_available")
     ELSE Goto(r, "co_loyalty")
  /\ UNCHANGED <<now, tables, verifies>>

\* Loyalty points: SELECT loyality_points FROM users_profiles WHERE id = ?
createOrder_loyalty(r) ==
  /\ req[r].pc = "co_loyalty"
  /\ LET subtotal == subtotalOf(req[r].seats, req[r].food_items)
         couponDiscount == couponDiscountOf(req[r].coupon_code, subtotal)
     IN req' = [req EXCEPT ![r].pc = "co_number",
                           ![r].used = loyaltyPointsUsed(req[r].use_loyalty,
                                                         loyality_points[req[r].user],
                                                         subtotal - couponDiscount)]
  /\ UNCHANGED <<now, tables, verifies>>

\* getNextBookingNumber: SELECT COUNT(*) FROM theater_bookings WHERE DATE(created_at) = today
getNextBookingNumber(bookings) == Len(bookings) + 1

createOrder_number(r) ==
  /\ req[r].pc = "co_number"
  /\ req' = [req EXCEPT ![r].pc = "co_gateway",
                        ![r].number = getNextBookingNumber(theater_bookings)]
  /\ UNCHANGED <<now, tables, verifies>>

\* razorpayUtil.createOrder: the gateway returns an order, or the call throws
createOrder_gateway(r) ==
  /\ req[r].pc = "co_gateway"
  /\ \/ /\ gateway_orders' = gateway_orders + 1
        /\ req' = [req EXCEPT ![r].pc = "co_booking", ![r].gw = gateway_orders + 1]
     \/ /\ Finish(r, "error")
        /\ UNCHANGED gateway_orders
  /\ UNCHANGED <<now, seat_locks, theater_bookings, event_bookings,
                 payment_transactions, loyality_points, verifies, isverified>>

\* the row createOrder inserts into theater_bookings, status 0 = pending
NewBooking(rq, t) ==
  [schedule_id |-> rq.sched, booking |-> rq.number, user_id |-> rq.user,
   seats_booked |-> rq.seats, total_amount |-> totalAmount(amountOf(rq)),
   status |-> 0, created_at |-> t,
   payment_information |-> [razorpay_order_id |-> rq.gw,
                            amount |-> totalAmount(amountOf(rq)),
                            payment_status |-> "pending"]]

\* Create PENDING booking in database
createOrder_booking(r) ==
  /\ req[r].pc = "co_booking"
  /\ theater_bookings' = Append(theater_bookings, NewBooking(req[r], now))
  /\ req' = [req EXCEPT ![r].pc = "co_tx", ![r].booking_id = Len(theater_bookings) + 1]
  /\ UNCHANGED <<now, seat_locks, event_bookings, payment_transactions,
                 loyality_points, gateway_orders, verifies, isverified>>

\* the row createOrder inserts into payment_transactions; debited and succeeded
\* are not columns: they count the loyalty debits and the flips to success of the row
NewTransaction(rq) ==
  [user_id |-> rq.user, booking_id |-> rq.booking_id, razorpay_order_id |-> rq.gw,
   amount |-> toFixed2(totalAmount(amountOf(rq))), status |-> "pending",
   razorpay_payment_id |-> 0, razorpay_signature |-> NoSig,
   payment_details |-> [schedule_id |-> rq.sched, seats |-> rq.seats,
                        tickets |-> <<>>, loyalty_points_used |-> rq.used,
                        food_items |-> rq.food_items, coupon_code |-> rq.coupon_code,
                        pricing |-> Pricing(rq.seats, rq.food_items, rq.coupon_code,
                                            rq.used)],
   debited |-> 0, succeeded |-> 0]

\* Store payment transaction with booking details
createOrder_tx(r) ==
  /\ req[r].pc = "co_tx"
  /\ payment_transactions' = Append(payment_transactions, NewTransaction(req[r]))
  /\ Answer(r, "ok", Pricing(req[r].seats, req[r].food_items, req[r].coupon_code,
                             req[r].used))
  /\ UNCHANGED <<now, seat_locks, theater_bookings, event_bookings,
                 loyality_points, gateway_orders, verifies, isverified>>

createOrder(r) ==
  \/ createOrder_lock(r)
  \/ createOrder_check(r)
  \/ createOrder_loyalty(r)
  \/ createOrder_number(r)
  \/ createOrder_gateway(r)
  \/ createOrder_booking(r)
  \/ createOrder_tx(r)

(* --------------------------- verifySignature -------------------------- *)
\* const KEY_SECRET of utils/razorpay.js
KEY_SECRET == "kxz5NCSv3RYzorvb3QoHxk3O"

\* crypto.createHmac('sha256', key).update(orderId + '|' + paymentId).digest('hex'):
\* a digest is determined by, and determines, the key and the text
HmacSig(key, o, p) == [prefix |-> "", key |-> key, order |-> o, pay |-> p]

\* what testVerifySuccess hands out: `test_sig_${Date.now()}`
TestSig == [prefix |-> "test_sig_", key |-> "", order |-> 0, pay |-> 0]

\* signature.startsWith('test_sig_') || generatedSignature === signature
verifySignature(o, p, sig) ==
  \/ sig.prefix = "test_sig_"
  \/ sig = HmacSig(KEY_SECRET, o, p)

(* ----------------------- verifyPayment (theater) ---------------------- *)
verifyPayment_start(r, u, o, p, sig) ==
  /\ Free(r)
  /\ verifies < MaxVerifies
  /\ verifies' = verifies + 1
  /\ Begin(r, [Idle EXCEPT !.op = "verifyPayment", !.pc = "vp_sig", !.user = u,
                           !.order = o, !.pay = p, !.sig = sig])
  /\ UNCHANGED <<now, tables>>

\* an UPDATE that matches no row
MarkFailed_none(txs, o) == txs

\* UPDATE payment_transactions SET status = 'failed' WHERE razorpay_order_id = ?
MarkFailed(txs, o) ==
  [k \in DOMAIN txs |->
     IF txs[k].razorpay_order_id = o THEN [txs[k] EXCEPT !.status = "failed"] ELSE txs[k]]

\* Verify payment signature; an invalid one marks the transaction failed
verifyPayment_sig(r) ==
  /\ req[r].pc = "vp_sig"
  /\ IF verifySignature(req[r].order, req[r].pay, req[r].sig)
     THEN /\ Goto(r, "vp_select")
          /\ UNCHANGED payment_transactions
     ELSE /\ payment_transactions' = MarkFailed(payment_transactions, req[r].order)
          /\ Finish(r, "invalid_signature")
  /\ UNCHANGED <<now, seat_locks, theater_bookings, event_bookings,
                 loyality_points, gateway_orders, verifies, isverified>>

\* SELECT * FROM payment_transactions WHERE razorpay_order_id = ? AND user_id = ?
PaymentOf(txs, o, u) ==
  {k \in DOMAIN txs : txs[k].razorpay_order_id = o /\ txs[k].user_id = u}

\* a check that lets every verification through
alreadyVerified_never(payment) == FALSE

\* Check if already verified: payment.status === 'success'
alreadyVerified(payment) == payment.status = "success"

\* the loyalty points of an order, derived again from the present balance
pointsOf_rederived(payment, points) ==
  loyaltyPointsUsed(payment.payment_details.loyalty_points_used > 0,
                    points[payment.user_id], payment.payment_details.pricing.subtotal)

\* bookingData.loyalty_points_used: the points stored with the transaction
pointsOf(payment, points) == payment.payment_details.loyalty_points_used

\* the pooled connections
Connections == Reqs

\* a connection is checked out of the pool from getConnection to release: in
\* verifyPayment, from beginTransaction to the release after the commit
CheckedOut(c) ==
  \E q \in Reqs : req[q].connection = c /\ req[q].pc = "vp_commit"

\* promisePool.getConnection(): a connection of the pool that is not checked
\* out, the lowest one
getConnection ==
  CHOOSE c \in Connections :
    /\ ~CheckedOut(c)
    /\ \A d \in Connections : d < c => CheckedOut(d)

\* beginTransaction; the two SELECTs of the unit of work read one snapshot:
\* the transaction row (a plain SELECT, no FOR UPDATE) and the booking row
verifyPayment_select(r) ==
  /\ req[r].pc = "vp_select"
  /\ LET found == PaymentOf(payment_transactions, req[r].order, req[r].user) IN
       IF found = {}
       THEN Finish(r, "payment_not_found")
       ELSE LET k == CHOOSE k \in found : TRUE IN
              IF alreadyVerified(payment_transactions[k])
              THEN Finish(r, "already_verified")
              ELSE IF payment_transactions[k].booking_id \notin DOMAIN theater_bookings
              THEN Finish(r, "booking_not_found")
              ELSE req' = [req EXCEPT
                             ![r].pc = "vp_commit", ![r].payment = k,
                             ![r].connection = getConnection,
                             ![r].booking_id = payment_transactions[k].booking_id,
                             ![r].sched = payment_transactions[k].payment_details.schedule_id,
                             ![r].used = pointsOf(payment_transactions[k],
                                                  loyality_points)]
  /\ UNCHANGED <<now, tables, verifies>>

\* UPDATE theater_bookings SET status = 1, payment_information = ? WHERE id = ?
\* payment is the transaction row the handler has read
ConfirmBooking(bookings, b, o, p, payment) ==
  [bookings EXCEPT ![b].status = 1,
                   ![b].payment_information =
                      [razorpay_order_id |-> o, razorpay_payment_id |-> p,
                       amount_paid |-> payment.amount,
                       payment_status |-> "success",
                       coupon_code |-> payment.payment_details.coupon_code,
                       coupon_discount |->
                         payment.payment_details.pricing.coupon_discount,
                       loyalty_points_used |->
                         payment.payment_details.loyalty_points_used,
                       food_items |-> payment.payment_details.food_items]]

\* UPDATE payment_transactions SET razorpay_payment_id, razorpay_signature,
\*   status = 'success' WHERE id = ?
MarkSuccess(txs, k, p, sig, used) ==
  [txs EXCEPT ![k].status = "success", ![k].razorpay_payment_id = p,
              ![k].razorpay_signature = sig,
              ![k].succeeded = @ + 1,
              ![k].debited = @ + (IF used > 0 THEN 1 ELSE 0)]

\* UPDATE users_profiles SET loyality_points = loyality_points - ? WHERE id = ?
Debit(points, u, used) ==
  IF used > 0 THEN [points EXCEPT ![u] = @ - used] ELSE points

\* the three UPDATEs, the commit and the release: the handler's variable
\* `connection` keeps the connection it has given back.  The rows are locked from each UPDATE to the
\* commit and other sessions read the committed rows, so the writes take effect
\* together, when they are committed; the debit is relative to the committed balance
verifyPayment_commit(r) ==
  /\ req[r].pc = "vp_commit"
  /\ loyality_points' = Debit(loyality_points, req[r].user, req[r].used)
  /\ theater_bookings' = ConfirmBooking(theater_bookings, req[r].booking_id,
                                        req[r].order, req[r].pay,
                                        payment_transactions[req[r].payment])
  /\ payment_transactions' = MarkSuccess(payment_transactions, req[r].payment,
                                         req[r].pay, req[r].sig, req[r].used)
  /\ Goto(r, "vp_unlock")
  /\ UNCHANGED <<now, seat_locks, event_bookings, gateway_orders, verifies, isverified>>

\* Release seat locks after successful payment:
\* DELETE FROM seat_locks WHERE schedule_id = ? AND user_id = ?
verifyPayment_unlock(r) ==
  /\ req[r].pc = "vp_unlock"
  /\ seat_locks' = DeleteLocksOf(seat_locks, req[r].sched, req[r].user, Seats)
  /\ Answer(r, "confirmed",
            payment_transactions[req[r].payment].payment_details.pricing)
  /\ UNCHANGED <<now, theater_bookings, event_bookings, payment_transactions,
                 loyality_points, gateway_orders, verifies, isverified>>

verifyPayment(r) ==
  \/ verifyPayment_sig(r)
  \/ verifyPayment_select(r)
  \/ verifyPayment_commit(r)
  \/ verifyPayment_unlock(r)

\* a failure that would leave the loyalty debit behind
verifyPayment_rollback_partial(r) ==
  /\ req[r].pc = "vp_commit"
  /\ loyality_points' = Debit(loyality_points, req[r].user, req[r].used)
  /\ Finish(r, "error")
  /\ UNCHANGED <<now, seat_locks, theater_bookings, event_bookings,
                 payment_transactions, gateway_orders, verifies, isverified>>

\* any query of the unit of work throws before the commit: the catch block rolls
\* the transaction back and answers 500
verifyPayment_rollback(r) ==
  /\ req[r].pc = "vp_commit"
  /\ Finish(r, "error")
  /\ UNCHANGED <<now, tables, verifies>>

(* ---------------------------- calculatePrice -------------------------- *)
calculatePrice_request(r, u, s, ss, items, code, use) ==
  /\ Free(r)
  /\ Begin(r, [Idle EXCEPT !.op = "calculatePrice", !.pc = "cp_quote", !.user = u,
                           !.sched = s, !.seats = ss, !.use_loyalty = use,
                           !.food_items = items, !.coupon_code = code])
  /\ UNCHANGED <<now, tables, verifies>>

\* a request without food_items and without coupon_code
calculatePrice_start(r, u, s, ss, use) ==
  calculatePrice_request(r, u, s, ss, <<>>, "", use)

\* the schedule, the user's points and the prices are read and the breakdown is
\* returned; a seat that is not in the layout is an error; nothing is written
calculatePrice_quote(r) ==
  /\ req[r].pc = "cp_quote"
  /\ IF req[r].sched \notin Schedules
     THEN Finish(r, "schedule_not_found")
     ELSE IF \E x \in Range(req[r].seats) : x \notin Seats
     THEN Finish(r, "seat_not_found")
     ELSE LET availableLoyaltyPoints == loyality_points[req[r].user]
              subtotal == subtotalOf(req[r].seats, req[r].food_items)
              couponDiscount == couponDiscountOf(req[r].coupon_code, subtotal)
              used == loyaltyPointsUsed(req[r].use_loyalty, availableLoyaltyPoints,
                                        subtotal - couponDiscount)
          IN Answer(r, "ok", Pricing(req[r].seats, req[r].food_items,
                                     req[r].coupon_code, used))
  /\ UNCHANGED <<now, tables, verifies>>

calculatePrice(r) == calculatePrice_quote(r)

(* ---------------------------- completeProfile ------------------------- *)
\* u completes the profile, giving the referral code of user v
completeProfile_start(r, u, v) ==
  /\ Free(r)
  /\ Begin(r, [Idle EXCEPT !.op = "completeProfile", !.pc = "pf_user", !.user = u,
                           !.order = v])
  /\ UNCHANGED <<now, tables, verifies>>

\* Get current user; check if user already completed profile
completeProfile_user(r) ==
  /\ req[r].pc = "pf_user"
  /\ IF isverified[req[r].user] = 1
     THEN Finish(r, "already_registered")
     ELSE Goto(r, "pf_referrer")
  /\ UNCHANGED <<now, tables, verifies>>

\* Validate referral code: the referrer's row with its loyality_points
completeProfile_referrer(r) ==
  /\ req[r].pc = "pf_referrer"
  /\ req' = [req EXCEPT ![r].pc = "pf_credit",
                        ![r].points = loyality_points[req[r].order]]
  /\ UNCHANGED <<now, tables, verifies>>

\* Add referral points to the referrer's loyalty points:
\* UPDATE users_profiles SET loyality_points = ? WHERE id = ?
completeProfile_credit(r) ==
  /\ req[r].pc = "pf_credit"
  /\ loyality_points' =
       [loyality_points EXCEPT ![req[r].order] = req[r].points + Rupees(referral_amount)]
  /\ Goto(r, "pf_update")
  /\ UNCHANGED <<now, seat_locks, theater_bookings, event_bookings,
                 payment_transactions, gateway_orders, verifies, isverified>>

\* Update user profile - Mark as registered
completeProfile_update(r) ==
  /\ req[r].pc = "pf_update"
  /\ isverified' = [isverified EXCEPT ![req[r].user] = 1]
  /\ Finish(r, "ok")
  /\ UNCHANGED <<now, seat_locks, theater_bookings, event_bookings,
                 payment_transactions, loyality_points, gateway_orders, verifies>>

completeProfile(r) ==
  \/ completeProfile_user(r)
  \/ completeProfile_referrer(r)
  \/ completeProfile_credit(r)
  \/ completeProfile_update(r)

(* --------------------------- testVerifyFailure ------------------------ *)
testVerifyFailure_start(r, u, o) ==
  /\ Free(r)
  /\ Begin(r, [Idle EXCEPT !.op = "testVerifyFailure", !.pc = "tf_tx", !.user = u,
                           !.order = o])
  /\ UNCHANGED <<now, tables, verifies>>

\* Update payment transaction as failed
testVerifyFailure_tx(r) ==
  /\ req[r].pc = "tf_tx"
  /\ payment_transactions' = MarkFailed(payment_transactions, req[r].order)
  /\ Goto(r, "tf_booking")
  /\ UNCHANGED <<now, seat_locks, theater_bookings, event_bookings,
                 loyality_points, gateway_orders, verifies, isverified>>

\* SELECT tb.booking FROM theater_bookings tb JOIN payment_transactions pt
\*   ON tb.id = pt.booking_id WHERE pt.razorpay_order_id = ?
BookingNumbersOf(bookings, txs, o) ==
  {bookings[b].booking : b \in {b \in DOMAIN bookings :
     \E k \in DOMAIN txs : txs[k].booking_id = b /\ txs[k].razorpay_order_id = o}}

\* UPDATE theater_bookings SET status = 2 WHERE booking IN (...)
CancelNumbers(bookings, numbers) ==
  [b \in DOMAIN bookings |->
     IF bookings[b].booking \in numbers THEN [bookings[b] EXCEPT !.status = 2]
     ELSE bookings[b]]

\* Update booking as cancelled
testVerifyFailure_booking(r) ==
  /\ req[r].pc = "tf_booking"
  /\ theater_bookings' =
       CancelNumbers(theater_bookings,
                     BookingNumbersOf(theater_bookings, payment_transactions, req[r].order))
  /\ Finish(r, "ok")
  /\ UNCHANGED <<now, seat_locks, event_bookings, payment_transactions,
                 loyality_points, gateway_orders, verifies, isverified>>

testVerifyFailure(r) ==
  \/ testVerifyFailure_tx(r)
  \/ testVerifyFailure_booking(r)

(* ------------------------- createOrder (event) ------------------------ *)
Events == {5}

\* ticket_managements: the ticket categories of event 5, by id
ticket_managements ==
  [id \in {1, 12} |->
     IF id = 1 THEN [select_event_id |-> 5, price |-> 100, total_quantity |-> 2]
               ELSE [select_event_id |-> 5, price |-> 300, total_quantity |-> 2]]

TicketIds == DOMAIN ticket_managements

\* the decimal digits of a number, as MySQL prints it
RECURSIVE Digits(_)
Digits(n) == IF n < 10 THEN <<n>> ELSE Append(Digits(n \div 10), n % 10)

\* a occurs in b as a run of consecutive elements
IsInfix(a, b) ==
  \E i \in 1 .. (Len(b) - Len(a) + 1) : SubSeq(b, i, i + Len(a) - 1) = a

\* JSON_EXTRACT(ticket_type, '$[*].ticket_id') LIKE '%<id>%': the id's digits occur
\* in the printed list of the booking's ticket ids
LikeTicket(id, ticket_type) ==
  \E j \in DOMAIN ticket_type : IsInfix(Digits(id), Digits(ticket_type[j].ticket_id))

\* SELECT COALESCE(SUM(qty), 0) FROM event_bookings WHERE ... LIKE ? AND status IN (0, 1)
RECURSIVE soldQty(_, _, _)
soldQty(bookings, id, b) ==
  IF b > Len(bookings) THEN 0
  ELSE (IF bookings[b].status \in {0, 1} /\ LikeTicket(id, bookings[b].ticket_type)
        THEN bookings[b].qty ELSE 0) + soldQty(bookings, id, b + 1)

\* const availableQty = ticket.total_quantity - soldQty
availableQty(bookings, id) ==
  ticket_managements[id].total_quantity - soldQty(bookings, id, 1)

\* ticketPrice += parseFloat(ticket.price) * parseInt(ticketItem.quantity)
RECURSIVE eventTicketPrice(_)
eventTicketPrice(items) ==
  IF items = <<>> THEN 0
  ELSE Rupees(ticket_managements[Head(items).ticket_id].price) * Head(items).quantity
         + eventTicketPrice(Tail(items))

eventCreateOrder_start(r, u, e, items, use) ==
  /\ Free(r)
  /\ Len(event_bookings)
       + Cardinality({q \in InFlight : req[q].op = "eventCreateOrder"}) < MaxEventBookings
  /\ Begin(r, [Idle EXCEPT !.op = "eventCreateOrder", !.pc = "ec_check", !.user = u,
                           !.sched = e, !.tickets = items, !.i = 1, !.use_loyalty = use])
  /\ UNCHANGED <<now, tables, verifies>>

\* one round of the loop over the requested tickets: the ticket row, the sold
\* quantity, the availability check
eventCreateOrder_check(r) ==
  /\ req[r].pc = "ec_check"
  /\ LET item == req[r].tickets[req[r].i] IN
       IF \/ item.ticket_id \notin TicketIds
          \/ ticket_managements[item.ticket_id].select_event_id # req[r].sched
       THEN Finish(r, "ticket_not_found")
       ELSE IF item.quantity > availableQty(event_bookings, item.ticket_id)
       THEN Finish(r, "not_available")
       ELSE IF req[r].i = Len(req[r].tickets)
       THEN req' = [req EXCEPT ![r].pc = "ec_loyalty", ![r].i = 0,
                               ![r].qty = @ + item.quantity]
       ELSE req' = [req EXCEPT ![r].i = @ + 1, ![r].qty = @ + item.quantity]
  /\ UNCHANGED <<now, tables, verifies>>

\* const subtotal = ticketPrice + platformFee
eventSubtotal(items) == eventTicketPrice(items) + Rupees(platformFee)

eventCreateOrder_loyalty(r) ==
  /\ req[r].pc = "ec_loyalty"
  /\ req' = [req EXCEPT ![r].pc = "ec_number",
                        ![r].used = loyaltyPointsUsed(req[r].use_loyalty,
                                                      loyality_points[req[r].user],
                                                      eventSubtotal(req[r].tickets))]
  /\ UNCHANGED <<now, tables, verifies>>

\* bookingHelper.getNextBookingNumber(db): it counts theater_bookings here too
eventCreateOrder_number(r) ==
  /\ req[r].pc = "ec_number"
  /\ req' = [req EXCEPT ![r].pc = "ec_gateway",
                        ![r].number = getNextBookingNumber(theater_bookings)]
  /\ UNCHANGED <<now, tables, verifies>>

eventCreateOrder_gateway(r) ==
  /\ req[r].pc = "ec_gateway"
  /\ \/ /\ gateway_orders' = gateway_orders + 1
        /\ req' = [req EXCEPT ![r].pc = "ec_booking", ![r].gw = gateway_orders + 1]
     \/ /\ Finish(r, "error")
        /\ UNCHANGED gateway_orders
  /\ UNCHANGED <<now, seat_locks, theater_bookings, event_bookings,
                 payment_transactions, loyality_points, verifies, isverified>>

\* the row createOrder inserts into event_bookings, status 0 = pending
NewEventBooking(rq, t) ==
  [booking |-> rq.number, user_id |-> rq.user, ticket_type |-> rq.tickets,
   qty |-> rq.qty, total_amount |-> totalAmount(eventSubtotal(rq.tickets) - rq.used),
   status |-> 0, created_at |-> t,
   payment_information |-> [razorpay_order_id |-> rq.gw, razorpay_payment_id |-> 0,
                            payment_status |-> "pending"]]

eventCreateOrder_booking(r) ==
  /\ req[r].pc = "ec_booking"
  /\ event_bookings' = Append(event_bookings, NewEventBooking(req[r], now))
  /\ req' = [req EXCEPT ![r].pc = "ec_tx", ![r].booking_id = Len(event_bookings) + 1]
  /\ UNCHANGED <<now, seat_locks, theater_bookings, payment_transactions,
                 loyality_points, gateway_orders, verifies, isverified>>

\* the row the event createOrder inserts into payment_transactions: its
\* payment_details hold no schedule_id
NewEventTransaction(rq) ==
  [user_id |-> rq.user, booking_id |-> rq.booking_id, razorpay_order_id |-> rq.gw,
   amount |-> toFixed2(totalAmount(eventSubtotal(rq.tickets) - rq.used)),
   status |-> "pending",
   razorpay_payment_id |-> 0, razorpay_signature |-> NoSig,
   payment_details |-> [schedule_id |-> 0, seats |-> <<>>,
                        tickets |-> rq.tickets, loyalty_points_used |-> rq.used,
                        food_items |-> <<>>, coupon_code |-> "",
                        pricing |-> [NoPricing EXCEPT
                          !.ticket_price = eventTicketPrice(rq.tickets),
                          !.platform_fee = Rupees(platformFee),
                          !.subtotal = eventSubtotal(rq.tickets),
                          !.gst = toFixed2(gstOf(eventSubtotal(rq.tickets) - rq.used)),
                          !.total = toFixed2(totalAmount(eventSubtotal(rq.tickets)
                                                           - rq.used))]],
   debited |-> 0, succeeded |-> 0]

eventCreateOrder_tx(r) ==
  /\ req[r].pc = "ec_tx"
  /\ payment_transactions' = Append(payment_transactions, NewEventTransaction(req[r]))
  /\ Finish(r, "ok")
  /\ UNCHANGED <<now, seat_locks, theater_bookings, event_bookings,
                 loyality_points, gateway_orders, verifies, isverified>>

eventCreateOrder(r) ==
  \/ eventCreateOrder_check(r)
  \/ eventCreateOrder_loyalty(r)
  \/ eventCreateOrder_number(r)
  \/ eventCreateOrder_gateway(r)
  \/ eventCreateOrder_booking(r)
  \/ eventCreateOrder_tx(r)

(* ------------------------- getTicketCategories ------------------------ *)
Max(a, b) == IF a >= b THEN a ELSE b

getTicketCategories_start(r, u, e) ==
  /\ Free(r)
  /\ Begin(r, [Idle EXCEPT !.op = "getTicketCategories", !.pc = "tc_sold", !.user = u,
                           !.sched = e])
  /\ UNCHANGED <<now, tables, verifies>>

\* Calculate sold tickets for each ticket type: available_quantity =
\* Math.max(0, total_quantity - soldQty); the call writes nothing
getTicketCategories_sold(r) ==
  /\ req[r].pc = "tc_sold"
  /\ IF req[r].sched \notin Events
     THEN Finish(r, "event_not_found")
     ELSE req' = [req EXCEPT ![r].pc = "done", ![r].res = "ok",
                             ![r].layout = [id \in TicketIds |->
                                              Max(0, availableQty(event_bookings, id))]]
  /\ UNCHANGED <<now, tables, verifies>>

getTicketCategories(r) == getTicketCategories_sold(r)


(* ------------------------------- clock -------------------------------- *)
Tick ==
  /\ now + TickStep <= MaxTime
  /\ now' = now + TickStep
  /\ UNCHANGED <<tables, verifies, req>>

(* --------------------------- specification ---------------------------- *)
Init ==
  /\ now = 0
  /\ seat_locks = [k \in ScheduleIds \X Seats |-> NoLock]
  /\ theater_bookings = <<>>
  /\ event_bookings = <<>>
  /\ payment_transactions = <<>>
  /\ loyality_points = [u \in Users |-> Rupees(MaxBalance)]
  /\ gateway_orders = 0
  /\ verifies = 0
  /\ isverified = [u \in NewUsers |-> 0]
  /\ req = [r \in Reqs |-> Idle]

SeatLists == {<<"A1">>, <<"A1", "A2">>}

OrderIds == 1 .. MaxBookings

PaymentIds == {1}

\* the signatures a client may send for (o, p): the gateway's, one made with
\* another key, and a test signature
Sigs(o, p) == {HmacSig(KEY_SECRET, o, p), HmacSig("other", o, p), TestSig}

\* the signatures among them that verifySignature accepts
ValidSigs(o, p) == {sig \in Sigs(o, p) : verifySignature(o, p, sig)}

\* Spec: the seat inventory.  One request at a time (slot 1): holds, releases, the
\* availability call with its cleanup, orders, and verifications with the gateway's
\* signature, by any user for any order reference
Next ==
  \/ /\ InFlight = {}
     /\ \E u \in Users, s \in Schedules :
          \/ \E ss \in SeatLists : lockSeats_start(1, u, s, ss)
          \/ \E ss \in {<<>>, <<"A1">>} : unlockSeats_start(1, u, s, ss)
          \/ getSeatLayout_start(1, u, s)
          \/ \E ss \in SeatLists : createOrder_start(1, u, s, ss, FALSE)
          \/ \E o \in OrderIds, p \in PaymentIds :
               /\ verifies < MaxFlowVerifies
               /\ verifyPayment_start(1, u, o, p, HmacSig(KEY_SECRET, o, p))
  \/ lockSeats(1)
  \/ unlockSeats(1)
  \/ getSeatLayout(1)
  \/ createOrder(1)
  \/ verifyPayment(1)
  \/ Tick

Spec == Init /\ [][Next]_vars

\* SpecSettle: settlement.  One request at a time: orders for seat A1 with or
\* without loyalty points, and verifications with every kind of signature
NextSettle ==
  \/ /\ InFlight = {}
     /\ \E u \in Users, s \in Schedules :
          \/ \E use \in BOOLEAN : createOrder_start(1, u, s, <<"A1">>, use)
          \/ \E o \in OrderIds, p \in PaymentIds :
               \E sig \in Sigs(o, p) : verifyPayment_start(1, u, o, p, sig)
  \/ createOrder(1)
  \/ verifyPayment(1)
  \/ Tick

SpecSettle == Init /\ [][NextSettle]_vars

\* SpecProof: as SpecSettle, with the cleanup, and every verification carrying a
\* proof that verifySignature accepts
NextProof ==
  \/ /\ InFlight = {}
     /\ \E u \in Users, s \in Schedules :
          \/ \E use \in BOOLEAN : createOrder_start(1, u, s, <<"A1">>, use)
          \/ getSeatLayout_start(1, u, s)
          \/ \E o \in OrderIds, p \in PaymentIds :
               \E sig \in ValidSigs(o, p) : verifyPayment_start(1, u, o, p, sig)
  \/ createOrder(1)
  \/ getSeatLayout(1)
  \/ verifyPayment(1)
  \/ Tick

SpecProof == Init /\ [][NextProof]_vars

\* SpecLockRace: two lockSeats requests at a time, the clock standing still
NextLockRace ==
  \/ \E r \in Reqs, u \in Users, s \in Schedules, ss \in SeatLists :
       lockSeats_start(r, u, s, ss)
  \/ \E r \in Reqs : lockSeats(r)

SpecLockRace == Init /\ [][NextLockRace]_vars

\* SpecVerifyRace: orders for seat A1 placed one at a time, then verifications
\* with the gateway's signature, two at a time
NextVerifyRace ==
  \/ /\ InFlight = {}
     /\ \E u \in Users, s \in Schedules, use \in BOOLEAN :
          createOrder_start(1, u, s, <<"A1">>, use)
  \/ \E r \in Reqs, u \in Users, o \in OrderIds, p \in PaymentIds :
       /\ \A q \in InFlight : req[q].op = "verifyPayment"
       /\ verifies < MaxFlowVerifies
       /\ verifyPayment_start(r, u, o, p, HmacSig(KEY_SECRET, o, p))
  \/ createOrder(1)
  \/ \E r \in Reqs : verifyPayment(r)

SpecVerifyRace == Init /\ [][NextVerifyRace]_vars

\* the ticket lists a client may send for event 5
TicketLists ==
  {<<[ticket_id |-> 1, quantity |-> 1]>>,
   <<[ticket_id |-> 1, quantity |-> 2]>>,
   <<[ticket_id |-> 12, quantity |-> 1]>>,
   <<[ticket_id |-> 12, quantity |-> 1], [ticket_id |-> 1, quantity |-> 1]>>}

\* SpecEvent: two event createOrder requests at a time
NextEvent ==
  \/ \E r \in Reqs, u \in Users, e \in Events, items \in TicketLists, use \in BOOLEAN :
       eventCreateOrder_start(r, u, e, items, use)
  \/ \E r \in Reqs : eventCreateOrder(r)

SpecEvent == Init /\ [][NextEvent]_vars

\* SpecStatus: the life of a booking.  One request at a time: orders for seat
\* A1, the availability call with its cleanup, verifications with the gateway's
\* signature, and the failure-simulation entry point
NextStatus ==
  \/ /\ InFlight = {}
     /\ \E u \in Users, s \in Schedules :
          \/ createOrder_start(1, u, s, <<"A1">>, FALSE)
          \/ getSeatLayout_start(1, u, s)
          \/ \E o \in OrderIds, p \in PaymentIds :
               \/ /\ verifies < MaxFlowVerifies
                  /\ verifyPayment_start(1, u, o, p, HmacSig(KEY_SECRET, o, p))
               \/ testVerifyFailure_start(1, u, o)
  \/ createOrder(1)
  \/ getSeatLayout(1)
  \/ verifyPayment(1)
  \/ testVerifyFailure(1)
  \/ Tick

SpecStatus == Init /\ [][NextStatus]_vars

\* SpecLoyalty: the loyalty balance.  One request at a time: quotes, holds and
\* releases of seat A1, the availability call with its cleanup, orders paid with
\* loyalty points, verifications with the gateway's signature or a wrong one,
\* some of them failing before their commit, and a new user completing the
\* profile; the clock moves between requests
NextLoyalty ==
  \/ /\ InFlight = {}
     /\ \E u \in Users, s \in Schedules :
          \/ calculatePrice_start(1, u, s, <<"A1">>, TRUE)
          \/ lockSeats_start(1, u, s, <<"A1">>)
          \/ unlockSeats_start(1, u, s, <<"A1">>)
          \/ getSeatLayout_start(1, u, s)
          \/ createOrder_start(1, u, s, <<"A1">>, TRUE)
          \/ \E o \in OrderIds, p \in PaymentIds :
               \E sig \in {HmacSig(KEY_SECRET, o, p), HmacSig("other", o, p)} :
                 /\ verifies < MaxFlowVerifies
                 /\ verifyPayment_start(1, u, o, p, sig)
          \/ \E n \in NewUsers : completeProfile_start(1, n, u)
  \/ calculatePrice(1)
  \/ lockSeats(1)
  \/ unlockSeats(1)
  \/ getSeatLayout(1)
  \/ createOrder(1)
  \/ verifyPayment(1)
  \/ verifyPayment_rollback(1)
  \/ completeProfile(1)
  \/ InFlight = {} /\ Tick

SpecLoyalty == Init /\ [][NextLoyalty]_vars

\* SpecUnlock: holds and releases on two schedules, one request at a time
NextUnlock ==
  \/ /\ InFlight = {}
     /\ \E u \in Users, s \in ScheduleIds :
          \/ \E ss \in SeatLists : lockSeats_start(1, u, s, ss)
          \/ \E ss \in {<<>>, <<"A1">>} : unlockSeats_start(1, u, s, ss)
  \/ lockSeats(1)
  \/ unlockSeats(1)
  \/ Tick

SpecUnlock == Init /\ [][NextUnlock]_vars

\* SpecReclaim: abandoned event orders.  One request at a time: event orders
\* that nobody pays and the ticket availability call; the availability call is
\* made again and again, every request runs to its end and the clock moves on
NextReclaim ==
  \/ /\ InFlight = {}
     /\ \E u \in Users, e \in Events :
          \/ \E items \in TicketLists : eventCreateOrder_start(1, u, e, items, FALSE)
          \/ getTicketCategories_start(1, u, e)
  \/ eventCreateOrder(1)
  \/ getTicketCategories(1)
  \/ Tick

\* one step of the ticket availability entry point: a call arrives or goes on
AvailabilityCall ==
  \/ InFlight = {} /\ \E u \in Users, e \in Events : getTicketCategories_start(1, u, e)
  \/ getTicketCategories(1)

SpecReclaim ==
  /\ Init /\ [][NextReclaim]_vars
  /\ WF_vars(AvailabilityCall)
  /\ WF_vars(eventCreateOrder(1))
  /\ WF_vars(Tick)


\* the inputs of a price request: seat lists with a counter seat, food items of
\* this theater and of another one, coupon codes with one that does not exist
PriceSeatLists == {<<"A1">>, <<"A1", "A2">>, <<"B1">>}

FoodLists == {<<>>, <<[id |-> 7, quantity |-> 2]>>, <<[id |-> 8, quantity |-> 1]>>}

CouponCodes == {"", "HALF", "P15", "FLAT50", "FLAT500", "NOPE"}

\* the loyalty balances a user may have, in paise
Balances == {0, Rupees(MaxBalance), Rupees(BigBalance)}

InitPrice ==
  /\ now = 0
  /\ seat_locks = [k \in ScheduleIds \X Seats |-> NoLock]
  /\ theater_bookings = <<>>
  /\ event_bookings = <<>>
  /\ payment_transactions = <<>>
  /\ \E b \in Balances :
       loyality_points = [u \in Users |-> IF u = 1 THEN b ELSE Rupees(MaxBalance)]
  /\ gateway_orders = 0
  /\ verifies = 0
  /\ isverified = [u \in NewUsers |-> 0]
  /\ req = [r \in Reqs |-> Idle]

\* SpecPrice: the price breakdown.  One request at a time by user 1, whose
\* balance is any of Balances: quotes and orders for every input, until an
\* order has been placed
NextPrice ==
  \/ /\ InFlight = {}
     /\ Len(theater_bookings) < MaxPriceOrders
     /\ \E s \in Schedules, ss \in PriceSeatLists, items \in FoodLists,
           code \in CouponCodes, use \in BOOLEAN :
          \/ calculatePrice_request(1, 1, s, ss, items, code, use)
          \/ createOrder_request(1, 1, s, ss, items, code, use)
  \/ calculatePrice(1)
  \/ createOrder(1)

SpecPrice == InitPrice /\ [][NextPrice]_vars


(* ------------------------------ properties ---------------------------- *)
\* the theater bookings of schedule s, in a status of sts, whose snapshot holds seat x
BookingsOfSeat(s, x, sts) ==
  {b \in DOMAIN theater_bookings :
     /\ theater_bookings[b].schedule_id = s
     /\ theater_bookings[b].status \in sts
     /\ x \in Range(theater_bookings[b].seats_booked)}

\* C1: no seat of a schedule is in the snapshot of two confirmed theater bookings
C1_NoSeatConfirmedTwice ==
  \A s \in Schedules, x \in Seats : Cardinality(BookingsOfSeat(s, x, {1})) <= 1

\* C2: no seat of a schedule is in the snapshot of two theater bookings that are
\* pending or confirmed
C2_NoSeatBookedTwice ==
  \A s \in Schedules, x \in Seats : Cardinality(BookingsOfSeat(s, x, {0, 1})) <= 1

\* C5: a hold that is live and is still there after a step keeps its owner
C5_LiveHoldKeepsOwner ==
  [][\A k \in DOMAIN seat_locks :
       (/\ seat_locks[k] # NoLock
        /\ seat_locks[k].expires_at > now
        /\ seat_locks'[k] # NoLock)
       => seat_locks'[k].user_id = seat_locks[k].user_id]_vars

\* the loyalty points debited from user u for the transactions k, k+1, ...
RECURSIVE DebitedFrom(_, _)
DebitedFrom(u, k) ==
  IF k > Len(payment_transactions) THEN 0
  ELSE (IF payment_transactions[k].user_id = u
        THEN payment_transactions[k].debited
               * payment_transactions[k].payment_details.loyalty_points_used
        ELSE 0) + DebitedFrom(u, k + 1)

\* the request in slot r is a verifyPayment of its own user's transaction k
VerifyOf(r, k) ==
  /\ req[r].op = "verifyPayment"
  /\ payment_transactions[k].razorpay_order_id = req[r].order
  /\ payment_transactions[k].user_id = req[r].user

\* after a verifyPayment with a valid proof has returned, the transaction is
\* success, flipped once, its booking is confirmed and its points are debited once
C6_Settled ==
  /\ \A u \in Users : loyality_points[u] = Rupees(MaxBalance) - DebitedFrom(u, 1)
  /\ \A r \in Reqs, k \in DOMAIN payment_transactions :
       (VerifyOf(r, k) /\ req[r].pc = "done") =>
          /\ req[r].res \in {"confirmed", "already_verified"}
          /\ payment_transactions[k].status = "success"
          /\ payment_transactions[k].succeeded = 1
          /\ payment_transactions[k].debited =
               (IF payment_transactions[k].payment_details.loyalty_points_used > 0
                THEN 1 ELSE 0)
          /\ theater_bookings[payment_transactions[k].booking_id].status = 1

\* a verifyPayment that reads its transaction as success returns 'Payment already
\* verified' and writes nothing
C6_Rejected ==
  \A r \in Reqs, k \in DOMAIN payment_transactions :
     (VerifyOf(r, k) /\ req[r].pc = "vp_select" /\ verifyPayment_select(r)
        /\ payment_transactions[k].status = "success")
     => (req'[r].res = "already_verified" /\ req'[r].pc = "done" /\ UNCHANGED tables)

\* C6: of two verifyPayment calls in sequence with the same valid proof the first
\* confirms the booking and debits loyalty_points_used once, and the second is
\* rejected with 'Payment already verified' and debits nothing
C6_VerifyTwiceDebitsOnce == []C6_Settled /\ [][C6_Rejected]_vars

\* the second call with the proof of the first has been rejected
C6_Witness ==
  \E k \in DOMAIN payment_transactions :
     /\ VerifyOf(1, k) /\ req[1].pc = "done" /\ req[1].res = "already_verified"
     /\ payment_transactions[k].razorpay_signature = req[1].sig
     /\ payment_transactions[k].razorpay_payment_id = req[1].pay
     /\ payment_transactions[k].debited = 1
     /\ loyality_points[req[1].user] = 0

\* C8: a transaction is flipped to success at most once and debited at most once
C8_SuccessAtMostOnce ==
  \A k \in DOMAIN payment_transactions :
     /\ payment_transactions[k].succeeded <= 1
     /\ payment_transactions[k].debited <= 1

\* the status and payment fields of a transaction row
TxFields(k) ==
  <<payment_transactions[k].status, payment_transactions[k].razorpay_payment_id,
    payment_transactions[k].razorpay_signature>>

\* the status and payment fields of a theater booking row
BookingFields(b) ==
  <<theater_bookings[b].status, theater_bookings[b].payment_information>>

\* C9: a step of a verifyPayment request leaves the status and payment fields of
\* every transaction and booking of another user as they were
C9_VerifyTouchesOwnRowsOnly ==
  [][\A r \in Reqs :
       verifyPayment(r) =>
         /\ \A k \in DOMAIN payment_transactions :
              payment_transactions[k].user_id # req[r].user => TxFields(k)' = TxFields(k)
         /\ \A b \in DOMAIN theater_bookings :
              theater_bookings[b].user_id # req[r].user
                => BookingFields(b)' = BookingFields(b)]_vars

\* C10: a booking becomes confirmed only in a step of a verifyPayment request whose
\* signature is the HMAC of 'orderRef|paymentRef' under the integration secret
C10_ConfirmedOnlyByHmac ==
  [][\A b \in DOMAIN theater_bookings :
       (theater_bookings[b].status # 1 /\ theater_bookings'[b].status = 1)
       => \E r \in Reqs :
            /\ verifyPayment_commit(r)
            /\ req[r].sig = HmacSig(KEY_SECRET, req[r].order, req[r].pay)]_vars

\* the quantity of category id sold by booking row bk
RECURSIVE QtyOf(_, _)
QtyOf(items, id) ==
  IF items = <<>> THEN 0
  ELSE (IF Head(items).ticket_id = id THEN Head(items).quantity ELSE 0)
         + QtyOf(Tail(items), id)

\* the quantity of category id over the pending and confirmed event bookings
RECURSIVE SoldOf(_, _)
SoldOf(id, b) ==
  IF b > Len(event_bookings) THEN 0
  ELSE (IF event_bookings[b].status \in {0, 1}
        THEN QtyOf(event_bookings[b].ticket_type, id) ELSE 0) + SoldOf(id, b + 1)

\* C3: for every ticket category the quantities of its pending and confirmed event
\* bookings sum to at most its total_quantity, also when createOrder requests
\* interleave
C3_NoOversell ==
  \A id \in TicketIds : SoldOf(id, 1) <= ticket_managements[id].total_quantity

\* two finished lockSeats requests of different users that ran side by side for
\* a common seat that was free when the first of them arrived
LockRace(r1, r2) ==
  /\ r1 # r2
  /\ req[r1].op = "lockSeats" /\ req[r1].pc = "done"
  /\ req[r2].op = "lockSeats" /\ req[r2].pc = "done"
  /\ r1 \in req[r2].conc
  /\ req[r1].free0
  /\ req[r1].user # req[r2].user
  /\ req[r1].sched = req[r2].sched
  /\ Range(req[r1].seats) \cap Range(req[r2].seats) # {}

\* C4: of two concurrent lockSeats calls by different users for the same free
\* seat exactly one succeeds and the other gets a conflict
C4_OneLockWins ==
  \A r1, r2 \in Reqs :
    LockRace(r1, r2) =>
      \/ req[r1].res = "ok" /\ req[r2].res = "locked_by_other"
      \/ req[r2].res = "ok" /\ req[r1].res = "locked_by_other"

\* two finished verifyPayment requests of one user with the same accepted proof
\* that ran side by side
VerifyRace(r1, r2) ==
  /\ r1 # r2
  /\ req[r1].op = "verifyPayment" /\ req[r1].pc = "done"
  /\ req[r2].op = "verifyPayment" /\ req[r2].pc = "done"
  /\ r1 \in req[r2].conc
  /\ req[r1].user = req[r2].user
  /\ req[r1].order = req[r2].order
  /\ req[r1].pay = req[r2].pay
  /\ req[r1].sig = req[r2].sig

\* C7: of two concurrent verifyPayment calls for the same payment only one
\* confirms and debits, the other is told the payment is already verified
C7_ConcurrentVerifyOnce ==
  /\ \A r1, r2 \in Reqs :
       VerifyRace(r1, r2) => ~(req[r1].res = "confirmed" /\ req[r2].res = "confirmed")
  /\ \A k \in DOMAIN payment_transactions :
       /\ payment_transactions[k].succeeded <= 1
       /\ payment_transactions[k].debited <= 1

\* the rows of payment_transactions with gateway order id o
TxOfOrder(o) ==
  {k \in DOMAIN payment_transactions : payment_transactions[k].razorpay_order_id = o}

\* request r is a verifyPayment about to check a signature that does not verify
InvalidVerify(r) ==
  /\ req[r].pc = "vp_sig"
  /\ ~verifySignature(req[r].order, req[r].pay, req[r].sig)

\* C11: a verifyPayment with an invalid signature sets the transaction of that
\* order to failed, answers with an error, and leaves every booking's status and
\* every loyalty balance as they were
C11_InvalidSignatureStep ==
  \A r \in Reqs :
    (InvalidVerify(r) /\ verifyPayment_sig(r)) =>
      /\ \A k \in TxOfOrder(req[r].order) : payment_transactions'[k].status = "failed"
      /\ req'[r].pc = "done" /\ req'[r].res = "invalid_signature"
      /\ theater_bookings' = theater_bookings
      /\ event_bookings' = event_bookings
      /\ loyality_points' = loyality_points

C11_InvalidSignatureFails == [][C11_InvalidSignatureStep]_vars

\* a verification with an invalid signature has answered, for an order whose
\* transaction exists and is failed while its booking is still pending
C11_Witness ==
  \E r \in Reqs :
    /\ req[r].op = "verifyPayment" /\ req[r].pc = "done"
    /\ req[r].res = "invalid_signature"
    /\ \E k \in TxOfOrder(req[r].order) :
         /\ payment_transactions[k].status = "failed"
         /\ payment_transactions[k].succeeded = 0
         /\ theater_bookings[payment_transactions[k].booking_id].status = 0

\* C12: a theater booking is confirmed exactly when its transaction is success,
\* and the loyalty debit of the transaction is applied exactly when both hold
C12_ConfirmedIffSuccess ==
  \A k \in DOMAIN payment_transactions :
    LET tx == payment_transactions[k]
        confirmed == theater_bookings[tx.booking_id].status = 1
        success == tx.status = "success"
    IN /\ confirmed <=> success
       /\ tx.payment_details.loyalty_points_used > 0 =>
            (tx.debited > 0 <=> (confirmed /\ success))

\* C13: the status of a theater booking only moves from pending to confirmed or
\* from pending to cancelled
C13_StatusStep ==
  \A b \in DOMAIN theater_bookings :
    theater_bookings'[b].status # theater_bookings[b].status =>
      /\ theater_bookings[b].status = 0
      /\ theater_bookings'[b].status \in {1, 2}

C13_StatusMovesForward == [][C13_StatusStep]_vars

\* C14: a createOrder that arrives while one of its seats is held live by
\* another user, or is referenced by a pending or confirmed booking, inserts no
\* booking and no transaction and does not answer with an order
C14_TakenSeatStep ==
  \A r \in Reqs :
    (req[r].op = "createOrder" /\ ~req[r].free0) =>
      /\ ~createOrder_booking(r)
      /\ ~createOrder_tx(r)
      /\ req'[r].pc = "done" => req'[r].res # "ok"

C14_NoOrderOnTakenSeat == [][C14_TakenSeatStep]_vars

\* C15: when the gateway's order creation fails inside createOrder, the call
\* answers with an error and no booking row, no transaction row and no hold row
\* has been created or changed since the call arrived
C15_GatewayFailureStep ==
  \A r \in Reqs :
    (req[r].pc = "co_gateway" /\ createOrder_gateway(r) /\ req'[r].pc = "done") =>
      /\ req'[r].res = "error"
      /\ theater_bookings' = theater_bookings
      /\ payment_transactions' = payment_transactions
      /\ seat_locks' = req[r].locks0

C15_GatewayFailureLeavesNothing == [][C15_GatewayFailureStep]_vars

\* request r commits a verification that confirms its booking
ConfirmingCommit(r) ==
  /\ verifyPayment_commit(r)
  /\ theater_bookings'[req[r].booking_id].status = 1

\* a loyalty balance changes only in the commit of a verifyPayment that confirms
\* a booking
C16_OnlyVerifyStep ==
  loyality_points' # loyality_points => \E r \in Reqs : ConfirmingCommit(r)

C16_BalanceOnlyByVerify == [][C16_OnlyVerifyStep]_vars

\* the steps of the operations that must not touch a balance
QuietStep(r) ==
  \/ calculatePrice(r)
  \/ lockSeats(r)
  \/ unlockSeats(r)
  \/ getSeatLayout(r)
  \/ createOrder(r)
  \/ verifyPayment_sig(r)
  \/ verifyPayment_select(r)
  \/ verifyPayment_rollback(r)
  \/ verifyPayment_unlock(r)

C16_DebitStep ==
  /\ \A u \in Users :
       /\ loyality_points'[u] < loyality_points[u] =>
            \E r \in Reqs : ConfirmingCommit(r) /\ req[r].user = u
       /\ loyality_points'[u] > loyality_points[u] =>
            \E r \in Reqs : completeProfile_credit(r) /\ req[r].order = u
  /\ \A r \in Reqs : QuietStep(r) => loyality_points' = loyality_points

\* C16: a loyalty balance is decreased only in the commit of a verifyPayment of
\* its owner that confirms a booking, and increased only by the referral credit
\* of completeProfile; calculatePrice, lockSeats, unlockSeats, createOrder, the
\* cleanup and a rejected or rolled-back verifyPayment leave every balance unchanged
C16_BalanceDebitedOnlyByVerify == [][C16_DebitStep]_vars

\* a verification has debited its owner and a new user has completed the
\* profile with a referral code
C16_Witness ==
  /\ \E k \in DOMAIN payment_transactions :
       /\ payment_transactions[k].debited = 1
       /\ theater_bookings[payment_transactions[k].booking_id].status = 1
  /\ \E n \in NewUsers : isverified[n] = 1
  /\ \E r \in Reqs : req[r].op = "verifyPayment" /\ req[r].res = "error"

\* the requested seats of r that are booked or held live by another user
LockConflicts(r) ==
  lockSeats_unavailable(seat_locks, req[r].sched, req[r].seats, req[r].user, now)
    \cup (Range(req[r].seats) \cap bookedSeats(theater_bookings, req[r].sched))

\* the hold row of key k is as it was when r arrived, or it had expired and is gone
RowKept(r, k) ==
  \/ seat_locks'[k] = req[r].locks0[k]
  \/ seat_locks'[k] = NoLock /\ req[r].locks0[k].expires_at < now

C17_ConflictStep ==
  \A r \in Reqs :
    req[r].op = "lockSeats" =>
      /\ (req[r].pc = "ls_locks" /\ lockSeats_locks(r) /\ LockConflicts(r) # {}) =>
           \/ req'[r].pc = "done" /\ req'[r].res = "locked_by_other"
           \/ req'[r].pc = "ls_booked"
      /\ (req[r].pc = "ls_booked" /\ lockSeats_booked(r) /\ LockConflicts(r) # {}) =>
           /\ req'[r].pc = "done"
           /\ req'[r].res = "already_booked"
      /\ (req[r].pc # "done" /\ req'[r].pc = "done" /\ req'[r].res # "ok") =>
           /\ req'[r].named # {}
           /\ req'[r].named \subseteq LockConflicts(r)
           /\ \A x \in Range(req[r].seats) : RowKept(r, <<req[r].sched, x>>)
      /\ lockSeats_insert(r) => LockConflicts(r) = {}

HalfHeld(r) ==
  /\ req[r].op = "lockSeats" /\ req[r].pc = "ls_insert"
  /\ \E x, y \in Range(req[r].seats) :
       /\ seat_locks[<<req[r].sched, x>>].user_id = req[r].user
       /\ seat_locks[<<req[r].sched, y>>].user_id # req[r].user

C18_AtomicStep ==
  \A r, q \in Reqs :
    (r # q /\ HalfHeld(r)) => ~(lockSeats_locks(q) \/ lockSeats_insert(q))

\* C18: no other request reads or writes the holds while a multi-seat lockSeats
\* has written some but not all of its seats
C18_LockIsAtomic == [][C18_AtomicStep]_vars

\* the hold rows an unlockSeats request r is to delete: those of its user on its
\* schedule, for the listed seats or for every seat when no seat is listed
OwnHolds(r) ==
  {k \in DOMAIN seat_locks :
     /\ k[1] = req[r].sched
     /\ seat_locks[k].user_id = req[r].user
     /\ (req[r].seats = <<>> \/ k[2] \in Range(req[r].seats))}

C19_UnlockStep ==
  \A r \in Reqs :
    unlockSeats(r) =>
      \A k \in DOMAIN seat_locks :
        seat_locks'[k] = IF k \in OwnHolds(r) THEN NoLock ELSE seat_locks[k]

\* C19: unlockSeats deletes the requester's holds on the given schedule, the
\* listed seats or all of them when no seat is listed, and leaves the holds of
\* other users and the holds on other schedules as they are
C19_UnlockOnlyOwnHolds == [][C19_UnlockStep]_vars

\* an unlockSeats without a seat list has answered: the requester has no hold
\* left on the schedule, another user still holds a seat of it, and the
\* requester still holds a seat on another schedule
C19_Witness ==
  \E r \in Reqs :
    /\ req[r].op = "unlockSeats" /\ req[r].pc = "done" /\ req[r].seats = <<>>
    /\ \A x \in Seats : seat_locks[<<req[r].sched, x>>].user_id # req[r].user
    /\ \E x \in Seats : seat_locks[<<req[r].sched, x>>].user_id \notin {0, req[r].user}
    /\ \E s \in ScheduleIds \ {req[r].sched}, x \in Seats :
         seat_locks[<<s, x>>].user_id = req[r].user

\* the hold row of seat x on schedule s belongs to a user other than u and its
\* 15 minutes are over
ExpiredHoldOfOther(s, x, u) ==
  /\ HasLock(seat_locks, s, x)
  /\ seat_locks[<<s, x>>].user_id # u
  /\ seat_locks[<<s, x>>].expires_at < now

C20_ExpiryStep ==
  \A r \in Reqs :
    /\ getSeatLayout_locks(r) =>
         \A x \in onlineSeats :
           ExpiredHoldOfOther(req[r].sched, x, req[r].user) =>
             /\ req'[r].layout[x] # "locked"
             /\ x \notin SeatsOfBookings(theater_bookings, req[r].sched, {0, 1, 3}) =>
                  req'[r].layout[x] = "available"
    /\ lockSeats_locks(r) =>
         \A x \in Range(req[r].seats) :
           ExpiredHoldOfOther(req[r].sched, x, req[r].user) => x \notin req'[r].named
    /\ (lockSeats_locks(r)
          /\ \A x \in Range(req[r].seats) :
               ~HasLock(seat_locks, req[r].sched, x)
                 \/ ExpiredHoldOfOther(req[r].sched, x, req[r].user)) =>
         req'[r].pc = "ls_booked"

\* C20: a hold whose 15 minutes are over is not live for any read: the seat
\* layout does not report its seat as locked, and reports it as available when
\* no booking references it, and a lockSeats of another user does not conflict on it
C20_ExpiredHoldNotLive == [][C20_ExpiryStep]_vars

\* the layout has reported seat A1 as available to a user while the expired
\* hold row of another user is still in the table
C20_Witness ==
  \E r \in Reqs :
    /\ req[r].op = "getSeatLayout" /\ req[r].pc = "done" /\ req[r].res = "ok"
    /\ ExpiredHoldOfOther(req[r].sched, "A1", req[r].user)
    /\ req[r].layout["A1"] = "available"

\* the status of event booking b, or -1 when there is no such row
EventStatus(b) ==
  IF b \in DOMAIN event_bookings THEN event_bookings[b].status ELSE -1

\* C21: every event booking that is pending is eventually confirmed or
\* cancelled, when the ticket availability call keeps being made and time passes
C21_PendingEventReclaimed ==
  \A b \in 1 .. MaxEventBookings : (EventStatus(b) = 0) ~> (EventStatus(b) \in {1, 2})

\* theater booking b is pending and was created more than 15 minutes ago
Stale(b) ==
  /\ theater_bookings[b].status = 0
  /\ now - theater_bookings[b].created_at > TTL

\* theater booking b is not pending, or was created less than 15 minutes ago
Settled(b) ==
  \/ theater_bookings[b].status # 0
  \/ now - theater_bookings[b].created_at < TTL

\* no hold row of seat x on schedule s, or one whose 15 minutes are over
NoLiveHold(s, x) ==
  ~HasLock(seat_locks, s, x) \/ seat_locks[<<s, x>>].expires_at < now

C22_CleanupStep ==
  \A r \in Reqs :
    /\ cleanupPendingBookings_bookings(r) =>
         /\ \A b \in DOMAIN theater_bookings :
              /\ Stale(b) => theater_bookings'[b] = [theater_bookings[b] EXCEPT !.status = 2]
              /\ Settled(b) => theater_bookings'[b] = theater_bookings[b]
         /\ DOMAIN theater_bookings' = DOMAIN theater_bookings
         /\ UNCHANGED <<event_bookings, payment_transactions, loyality_points>>
    /\ cleanupPendingBookings_locks(r) => UNCHANGED theater_bookings
    /\ getSeatLayout_locks(r) =>
         \A b \in DOMAIN theater_bookings :
           (theater_bookings[b].status = 2 /\ theater_bookings[b].schedule_id = req[r].sched) =>
             \A x \in Range(theater_bookings[b].seats_booked) \cap onlineSeats :
               (/\ NoLiveHold(req[r].sched, x)
                /\ x \notin SeatsOfBookings(theater_bookings, req[r].sched, {0, 1, 3}))
               => req'[r].layout[x] = "available"

\* C22: the stale-booking cleanup sets the theater bookings that are pending and
\* older than 15 minutes to cancelled and changes nothing else: bookings that are
\* confirmed, cancelled, or pending for less than 15 minutes keep their status;
\* once the holds of a cancelled booking's seats have expired the layout reports
\* the seats as available
C22_CleanupCancelsOnlyStale == [][C22_CleanupStep]_vars

\* the layout has reported A1 as available after the cleanup cancelled a stale
\* booking of A1 that nobody had paid or failed, while another booking of the
\* schedule kept its status
C22_Witness ==
  \E r \in Reqs, b, c \in DOMAIN theater_bookings :
    /\ req[r].op = "getSeatLayout" /\ req[r].pc = "done" /\ req[r].res = "ok"
    /\ req[r].layout["A1"] = "available"
    /\ theater_bookings[b].status = 2
    /\ "A1" \in Range(theater_bookings[b].seats_booked)
    /\ \A k \in DOMAIN payment_transactions :
         payment_transactions[k].booking_id = b => payment_transactions[k].status = "pending"
    /\ c # b /\ theater_bookings[c].status = 0

\* the seats of schedule s that a pending or confirmed theater booking references
ReferencedSeats(s) == SeatsOfBookings(theater_bookings, s, {0, 1})

C23_BookedStep ==
  \A r \in Reqs :
    /\ getSeatLayout_locks(r) =>
         \A x \in onlineSeats \cap ReferencedSeats(req[r].sched) :
           req'[r].layout[x] = "booked"
    /\ (req[r].op = "lockSeats"
          /\ Range(req[r].seats) \cap ReferencedSeats(req[r].sched) # {}) =>
         /\ ~lockSeats_insert(r)
         /\ req'[r].pc = "done" => req'[r].res # "ok"

\* C23: the seat layout reports a seat as booked whenever a pending or confirmed
\* booking of the schedule references it, and lockSeats does not hold such a seat
C23_ReferencedSeatIsBooked == [][C23_BookedStep]_vars

\* seat x of schedule s has a live hold, owned by user u
HeldBy(s, x, u) ==
  /\ x \in LiveLocks(seat_locks, s, {x}, now)
  /\ seat_locks[<<s, x>>].user_id = u

C24_HeldStep ==
  \A r \in Reqs :
    getSeatLayout_locks(r) =>
      \A x \in onlineSeats \ req[r].booked :
        /\ HeldBy(req[r].sched, x, req[r].user) => req'[r].layout[x] # "available"
        /\ (\E u \in Users \ {req[r].user} : HeldBy(req[r].sched, x, u)) =>
             req'[r].layout[x] = "locked"

\* C24: the seat layout reports a seat that the requester holds live as held,
\* not as available, and a seat that another user holds live as locked
C24_OwnHoldIsReported == [][C24_HeldStep]_vars

\* the requests that have answered with a price breakdown
Priced == {r \in Reqs : req[r].op \in {"calculatePrice", "createOrder"}
                          /\ req[r].pc = "done" /\ req[r].res = "ok"}

\* the food subtotal as the price list gives it: unit price times quantity of
\* the items of this theater
RECURSIVE AddOnSubtotal(_)
AddOnSubtotal(items) ==
  IF items = <<>> THEN 0
  ELSE (IF Head(items).id = 7 THEN Rupees(120) * Head(items).quantity ELSE 0)
         + AddOnSubtotal(Tail(items))

\* the breakdown p is that of the request inputs rq: the subtotal is the ticket
\* subtotal plus the add-on subtotal plus the fee of 18 rupees, the tax is 18% of
\* the subtotal less discount and loyalty, to the nearest paisa, and the total is
\* that amount plus the tax
Consistent(rq, p) ==
  LET amount == p.subtotal - p.coupon_discount - p.loyalty_points_used IN
    /\ p.ticket_price = Len(rq.seats) * Rupees(200)
    /\ p.food_price = AddOnSubtotal(rq.food_items)
    /\ p.subtotal = p.ticket_price + p.food_price + Rupees(18)
    /\ 100 * p.gst - 18 * amount \in -50 .. 50
    /\ p.total = amount + p.gst
    /\ (rq.seats = <<"A1", "A2">> /\ rq.food_items = <<>> /\ rq.coupon_code = ""
          /\ ~rq.use_loyalty) =>
         (p.subtotal = 41800 /\ p.gst = 7524 /\ p.total = 49324)

\* C25: every breakdown a quote or an order answers with, and every breakdown
\* stored with a transaction, has subtotal = ticket subtotal + add-on subtotal + 18,
\* tax = 18% of (subtotal - discount - loyalty redeemed) and total = that amount
\* plus tax; two seats at 200 with nothing deducted give 418, 75.24 and 493.24
C25_BreakdownAddsUp ==
  /\ \A r \in Priced : Consistent(req[r], req[r].pricing)
  /\ \A k \in DOMAIN payment_transactions :
       LET d == payment_transactions[k].payment_details IN
         d.tickets = <<>> =>
           Consistent([seats |-> d.seats, food_items |-> d.food_items,
                       coupon_code |-> d.coupon_code,
                       use_loyalty |-> d.loyalty_points_used > 0], d.pricing)

\* an order for two seats with a percentage coupon and loyalty points has been
\* priced with a tax that needed rounding
C25_Witness ==
  \E r \in Priced :
    /\ req[r].op = "createOrder" /\ req[r].seats = <<"A1", "A2">>
    /\ req[r].pricing.coupon_discount = 6270
    /\ req[r].pricing.loyalty_points_used = 200
    /\ req[r].pricing.food_price = 0
    /\ (18 * (req[r].pricing.subtotal - 6270 - 200)) % 100 # 0

\* C26: the loyalty points a breakdown redeems are min(balance, subtotal -
\* discount) when redemption is requested and the balance is positive, they are
\* never negative, and the total is never negative
C26_RedemptionBounded ==
  \A r \in Priced :
    LET p == req[r].pricing
        balance == loyality_points[req[r].user]
    IN /\ (req[r].use_loyalty /\ balance > 0) =>
            p.loyalty_points_used = Min(balance, p.subtotal - p.coupon_discount)
       /\ p.loyalty_points_used >= 0
       /\ p.total >= 0

\* calculatePrice answers a request for the seats ss of schedule s with a price
QuoteAccepts(s, ss) == s \in Schedules /\ \A x \in Range(ss) : x \in Seats

\* createOrder goes on to price a request for the seats ss of schedule s
OrderAccepts(s, ss) ==
  s \in Schedules /\ createOrder_unavailable(theater_bookings, s, ss) = {}

\* the breakdown of a quote for the inputs of request rq, at the present balance
QuoteFor(rq) ==
  Pricing(rq.seats, rq.food_items, rq.coupon_code,
          loyaltyPointsUsed(rq.use_loyalty, loyality_points[rq.user],
                            subtotalOf(rq.seats, rq.food_items)
                              - couponDiscountOf(rq.coupon_code,
                                                 subtotalOf(rq.seats, rq.food_items))))

C27_QuoteStep ==
  \A r \in Reqs :
    /\ calculatePrice_quote(r) =>
         (req'[r].res = "ok" <=> OrderAccepts(req[r].sched, req[r].seats))
    /\ createOrder_check(r) =>
         (req'[r].pc # "done" <=> QuoteAccepts(req[r].sched, req[r].seats))
    /\ createOrder_tx(r) => req'[r].pricing = QuoteFor(req[r])

\* C27: for the same inputs and unchanged state calculatePrice and createOrder
\* accept or reject the same seat lists and produce the same price breakdown
C27_QuoteEqualsOrder == [][C27_QuoteStep]_vars

\* the amount and the items of theater booking b and of transaction k
Snapshot(b, k) ==
  <<theater_bookings[b].total_amount, theater_bookings[b].seats_booked,
    payment_transactions[k].amount, payment_transactions[k].payment_details>>

C28_SnapshotStep ==
  /\ \A r \in Reqs :
       createOrder_tx(r) =>
         LET tx == payment_transactions'[Len(payment_transactions')]
             booking == theater_bookings[req[r].booking_id]
         IN /\ tx.payment_details.pricing = req'[r].pricing
            /\ tx.amount = req'[r].pricing.total
            /\ toFixed2(booking.total_amount) = req'[r].pricing.total
            /\ booking.seats_booked = req[r].seats
            /\ tx.payment_details.seats = req[r].seats
  /\ \A r \in Reqs :
       verifyPayment(r) =>
         /\ \A b \in DOMAIN theater_bookings, k \in DOMAIN payment_transactions :
              Snapshot(b, k)' = Snapshot(b, k)
         /\ verifyPayment_commit(r) =>
              LET tx == payment_transactions[req[r].payment]
                  booking == theater_bookings'[req[r].booking_id]
              IN /\ booking.status = 1
                 /\ booking.payment_information.amount_paid = tx.amount
                 /\ booking.payment_information.loyalty_points_used
                      = tx.payment_details.loyalty_points_used
                 /\ booking.payment_information.coupon_discount
                      = tx.payment_details.pricing.coupon_discount
                 /\ loyality_points'[req[r].user]
                      = loyality_points[req[r].user]
                          - tx.payment_details.loyalty_points_used
         /\ verifyPayment_unlock(r) =>
              req'[r].pricing
                = payment_transactions[req[r].payment].payment_details.pricing

\* C28: the amount and the items stored with a booking and its transaction are
\* those createOrder computed; verifyPayment leaves them as they are, and what
\* it records, debits and answers is read from the transaction's snapshot,
\* whatever the loyalty balance has become since the order
C28_ConfirmedFromSnapshot == [][C28_SnapshotStep]_vars

\* a verification has confirmed an order that redeemed 2 points, after the
\* user's balance had grown by a referral credit since the order was placed
C28_Witness ==
  \E k \in DOMAIN payment_transactions :
    LET tx == payment_transactions[k]
        booking == theater_bookings[tx.booking_id]
    IN /\ req[1].op = "verifyPayment" /\ req[1].pc = "done" /\ req[1].res = "confirmed"
       /\ req[1].order = tx.razorpay_order_id /\ req[1].user = tx.user_id
       /\ tx.status = "success" /\ tx.debited = 1
       /\ tx.payment_details.loyalty_points_used = Rupees(MaxBalance)
       /\ booking.status = 1
       /\ booking.payment_information.loyalty_points_used = Rupees(MaxBalance)
       /\ \E n \in NewUsers : isverified[n] = 1
       /\ loyality_points[tx.user_id] = Rupees(referral_amount)

(* ------------------- createOrder: a failing INSERT -------------------- *)
\* the INSERT INTO payment_transactions throws: the catch block of createOrder
\* answers 500; the booking row inserted before it was written outside any
\* database transaction and stays
createOrder_tx_fails(r) ==
  /\ req[r].pc = "co_tx"
  /\ Finish(r, "error")
  /\ UNCHANGED <<now, tables, verifies>>

\* the same failure in the event createOrder
eventCreateOrder_tx_fails(r) ==
  /\ req[r].pc = "ec_tx"
  /\ Finish(r, "error")
  /\ UNCHANGED <<now, tables, verifies>>

\* SpecLink: orders of both domains, one request at a time, each INSERT INTO
\* payment_transactions succeeding or throwing
NextLink ==
  \/ /\ InFlight = {}
     /\ \E u \in Users :
          \/ \E s \in Schedules, ss \in {<<"A1">>, <<"A2">>} :
               createOrder_start(1, u, s, ss, FALSE)
          \/ \E e \in Events, items \in TicketLists :
               eventCreateOrder_start(1, u, e, items, FALSE)
  \/ createOrder(1)
  \/ createOrder_tx_fails(1)
  \/ eventCreateOrder(1)
  \/ eventCreateOrder_tx_fails(1)

SpecLink == Init /\ [][NextLink]_vars

\* the transactions of theater booking b: those whose booking_id is b and whose
\* payment_details carry a schedule
TransactionsOf(b) ==
  {k \in DOMAIN payment_transactions :
     /\ payment_transactions[k].booking_id = b
     /\ payment_transactions[k].payment_details.schedule_id # 0}

\* the transactions of event booking b: those whose booking_id is b and whose
\* payment_details carry tickets
EventTransactionsOf(b) ==
  {k \in DOMAIN payment_transactions :
     /\ payment_transactions[k].booking_id = b
     /\ payment_transactions[k].payment_details.schedule_id = 0}

\* the bookings whose createOrder stands between its two INSERTs
Inserting(op) == {req[r].booking_id : r \in {q \in InFlight : req[q].op = op /\ req[q].booking_id # 0}}

\* C29: every transaction belongs to one booking of its domain, and every
\* booking whose createOrder has ended has exactly one transaction
C29_OneBookingOneTransaction ==
  /\ \A k \in DOMAIN payment_transactions :
       IF payment_transactions[k].payment_details.schedule_id # 0
         THEN payment_transactions[k].booking_id \in DOMAIN theater_bookings
         ELSE payment_transactions[k].booking_id \in DOMAIN event_bookings
  /\ \A b \in DOMAIN theater_bookings :
       b \notin Inserting("createOrder") => Cardinality(TransactionsOf(b)) = 1
  /\ \A b \in DOMAIN event_bookings :
       b \notin Inserting("eventCreateOrder") => Cardinality(EventTransactionsOf(b)) = 1


(* --------------- verifyPayment: failures after the commit ------------- *)
\* the DELETE FROM seat_locks after the commit throws: the catch block of
\* verifyPayment answers 500 'Failed to verify payment'; the committed rows stay
verifyPayment_unlock_fails(r) ==
  /\ req[r].pc = "vp_unlock"
  /\ Finish(r, "error")
  /\ UNCHANGED <<now, tables, verifies>>

\* saveQRCodeToFile throws after the holds were deleted: the same catch block
verifyPayment_qr_fails(r) ==
  /\ req[r].pc = "vp_unlock"
  /\ seat_locks' = DeleteLocksOf(seat_locks, req[r].sched, req[r].user, Seats)
  /\ Finish(r, "error")
  /\ UNCHANGED <<now, theater_bookings, event_bookings, payment_transactions,
                 loyality_points, gateway_orders, verifies, isverified>>

\* SpecArtifact: as SpecSettle, the work after the commit succeeding or throwing
NextArtifact ==
  \/ NextSettle
  \/ verifyPayment_unlock_fails(1)
  \/ verifyPayment_qr_fails(1)

SpecArtifact == Init /\ [][NextArtifact]_vars

C30_AfterCommitStep ==
  \A r \in Reqs :
    (req[r].pc = "vp_unlock" /\ req'[r].pc = "done") =>
      /\ theater_bookings'[req[r].booking_id].status = 1
      /\ payment_transactions'[req[r].payment].status = "success"
      /\ req'[r].res = "confirmed"

\* C30: once verifyPayment has committed, whatever happens while the holds are
\* released and the ticket artifact is generated, the booking stays confirmed,
\* the transaction stays success and the call answers confirmed
C30_ConfirmedDespiteFailure == [][C30_AfterCommitStep]_vars

\* the hold rows of seat x of schedule s held by user u
RowsOf(locks, s, x, u) ==
  IF HasLock(locks, s, x) /\ locks[<<s, x>>].user_id = u THEN {locks[<<s, x>>]} ELSE {}

C31_UpsertStep ==
  \A r \in Reqs :
    (lockSeats_insert(r) \/ createOrder_lock(r)) =>
      LET s == req[r].sched
          x == req[r].seats[req[r].i]
      IN /\ RowsOf(seat_locks', s, x, req[r].user)
              = {[user_id |-> req[r].user, expires_at |-> now + TTL]}
         /\ \A k \in DOMAIN seat_locks : k # <<s, x>> => seat_locks'[k] = seat_locks[k]

NextSweep ==
  \/ /\ InFlight = {}
     /\ \/ \E u \in Users, s \in Schedules :
             \/ \E ss \in SeatLists : lockSeats_start(1, u, s, ss)
             \/ getSeatLayout_start(1, u, s)
             \/ \E ss \in SeatLists : createOrder_start(1, u, s, ss, FALSE)
        \/ Tick
  \/ lockSeats(1)
  \/ getSeatLayout(1)
  \/ createOrder(1)

SpecSweep == Init /\ [][NextSweep]_vars

\* the keys of the holds whose expiry has passed: expires_at < NOW()
ExpiredLocks(locks, t) ==
  {k \in DOMAIN locks : locks[k] # NoLock /\ locks[k].expires_at < t}

\* the steps of the three entry points that read or write seats, holds or bookings
InventoryStep(r) ==
  \/ lockSeats_locks(r) \/ lockSeats_booked(r) \/ lockSeats_insert(r)
  \/ getSeatLayout_booked(r) \/ getSeatLayout_locks(r)
  \/ createOrder(r)

\* C32: getSeatLayout, lockSeats and createOrder delete the holds whose expiry
\* has passed before they read or write inventory: none of their reads and
\* writes starts from a hold table with an expired row in it
C32_NoExpiredHoldAtWork ==
  [][\A r \in Reqs : InventoryStep(r) => ExpiredLocks(seat_locks, now) = {}]_vars

C33_ReleaseStep ==
  \A r \in Reqs :
    verifyPayment_unlock(r) =>
      \A k \in DOMAIN seat_locks :
        seat_locks'[k] # seat_locks[k] =>
          /\ seat_locks[k].user_id = req[r].user
          /\ k[1] = theater_bookings[req[r].booking_id].schedule_id
          /\ k[2] \in Range(theater_bookings[req[r].booking_id].seats_booked)

\* C33: the release of holds after the commit of verifyPayment deletes only
\* the requester's holds on the seats of the confirmed booking; the requester's
\* holds on other seats and every hold of another user stay as they are
C33_ReleaseOnlyBookedSeats == [][C33_ReleaseStep]_vars

\* the quantity booked for category id in a list of ticket items
RECURSIVE QuantityFor(_, _)
QuantityFor(id, items) ==
  IF items = <<>> THEN 0
  ELSE (IF Head(items).ticket_id = id THEN Head(items).quantity ELSE 0)
         + QuantityFor(id, Tail(items))

\* the quantity booked for category id by the pending and the confirmed event
\* bookings from row b on
RECURSIVE BookedFor(_, _)
BookedFor(id, b) ==
  IF b > Len(event_bookings) THEN 0
  ELSE (IF event_bookings[b].status \in {0, 1}
        THEN QuantityFor(id, event_bookings[b].ticket_type) ELSE 0)
         + BookedFor(id, b + 1)

Remaining(id) == ticket_managements[id].total_quantity - BookedFor(id, 1)

\* C34: the count the ticket availability call reports for a category is its
\* total quantity less the quantity the pending and confirmed event bookings
\* hold of that category alone, and a category is left out of the list (count
\* 0 here) exactly when nothing remains
C34_RemainingPerCategory ==
  (req[1].op = "getTicketCategories" /\ req[1].pc = "done" /\ req[1].res = "ok") =>
    \A id \in TicketIds : req[1].layout[id] = Max(0, Remaining(id))

\* the booking numbers of the two booking tables, one entry per row
BookingNumbers ==
  [b \in DOMAIN theater_bookings |-> theater_bookings[b].booking]
    \o [b \in DOMAIN event_bookings |-> event_bookings[b].booking]

\* C35: any two bookings, theater or event, placed one after the other or by
\* createOrder calls running together, carry different booking numbers
C35_BookingNumbersDiffer ==
  \A i, j \in DOMAIN BookingNumbers : i # j => BookingNumbers[i] # BookingNumbers[j]

C36_FailureStep ==
  \A r \in Reqs :
    testVerifyFailure(r) =>
      /\ \A k \in DOMAIN payment_transactions :
           payment_transactions'[k] # payment_transactions[k] =>
             payment_transactions[k].razorpay_order_id = req[r].order
      /\ \A b \in DOMAIN theater_bookings :
           theater_bookings'[b] # theater_bookings[b] =>
             /\ \E k \in DOMAIN payment_transactions :
                  /\ payment_transactions[k].razorpay_order_id = req[r].order
                  /\ payment_transactions[k].booking_id = b
             /\ theater_bookings[b].status = 0
      /\ event_bookings' = event_bookings

\* C36: testVerifyFailure for an order reference changes only the transaction
\* with that reference and the booking linked to it, and the booking only
\* while it is pending; no other booking changes
C36_FailureTouchesPendingOnly == [][C36_FailureStep]_vars

\* C37: the loyalty balance of every user is 0 or more in every reachable
\* state, also after two orders of one user, each redeeming the balance read
\* when it was placed, have both been verified
C37_BalanceNeverNegative == \A u \in Users : loyality_points[u] >= 0

C38_RejectStep ==
  \A r \in Reqs :
    (createOrder_check(r) /\ req'[r].res \in {"schedule_not_found", "not_available"}) =>
      seat_locks' = req[r].locks0

\* C38: a theater createOrder that validation rejects (schedule not found, seat
\* outside the online quota, seat already booked) leaves the hold table as it
\* was when the call arrived
C38_RejectedOrderLeavesHolds == [][C38_RejectStep]_vars

C39_LockStep ==
  \A r \in Reqs :
    (lockSeats(r) /\ Range(req[r].seats) \cap SeatsOfBookings(theater_bookings,
                                                               req[r].sched, {1}) # {}) =>
      /\ req'[r].pc = "done" => req'[r].res = "already_booked"
      /\ \A k \in DOMAIN seat_locks :
           seat_locks'[k] # seat_locks[k] => seat_locks'[k] = NoLock

\* C39: once a confirmed booking references a seat of a schedule, every
\* lockSeats whose seat list contains that seat answers 'Seats already booked'
\* and writes no hold, whoever calls it
C39_ConfirmedSeatNeverLocked == [][C39_LockStep]_vars

C39_RejectStep ==
  \A r \in Reqs :
    (lockSeats(r) /\ Range(req[r].seats) \cap SeatsOfBookings(theater_bookings,
                                                               req[r].sched, {1}) # {}) =>
      /\ req'[r].pc = "done" => req'[r].res \in {"already_booked", "locked_by_other"}
      /\ \A k \in DOMAIN seat_locks :
           seat_locks'[k] # seat_locks[k] => seat_locks'[k] = NoLock

\* C39, amended: once a confirmed booking references a seat of a schedule,
\* every lockSeats whose seat list contains that seat is turned down with a
\* conflict, 'Seats already selected by another user' when another user holds
\* a seat of the list live and 'Seats already booked' otherwise, and writes no
\* hold, whoever calls it
C39_ConfirmedSeatLockRejected == [][C39_RejectStep]_vars

\* a lockSeats by the owner of the confirmed booking of seat A1 was turned down
\* for that seat, and the seat has no hold
C39_Witness ==
  /\ req[1].op = "lockSeats" /\ req[1].pc = "done" /\ req[1].res = "already_booked"
  /\ "A1" \in req[1].named
  /\ \E b \in DOMAIN theater_bookings :
       /\ theater_bookings[b].status = 1
       /\ theater_bookings[b].user_id = req[1].user
       /\ theater_bookings[b].schedule_id = req[1].sched
       /\ "A1" \in Range(theater_bookings[b].seats_booked)
  /\ ~HasLock(seat_locks, req[1].sched, "A1")

\* SpecPool: as SpecVerifyRace, the work after the commit succeeding or throwing
NextPool ==
  \/ NextVerifyRace
  \/ \E r \in Reqs : verifyPayment_unlock_fails(r)
  \/ \E r \in Reqs : verifyPayment_qr_fails(r)

SpecPool == Init /\ [][NextPool]_vars

\* the catch block of verifyPayment runs in request r: if (connection) rollback,
\* release
verifyPayment_catch(r) ==
  \/ verifyPayment_rollback(r)
  \/ verifyPayment_unlock_fails(r)
  \/ verifyPayment_qr_fails(r)

C40_CatchStep ==
  \A r \in Reqs :
    (verifyPayment_catch(r) /\ req[r].connection # 0) =>
      \A q \in Reqs \ {r} :
        ~(req[q].connection = req[r].connection /\ req[q].pc = "vp_commit")

\* C40: a verifyPayment rolls back and releases its connection only while it
\* has it checked out: after its commit and release a failure in it issues no
\* rollback and no release on a connection that another request has since
\* taken from the pool and has a transaction open on
C40_RollbackOnlyOwnConnection == [][C40_CatchStep]_vars
====
